---- MODULE Spec2Model ----
(***************************************************************************)
(* A model of the generic Repository + Service pair of repo-framework      *)
(* (src/src/repositories/base.repo.ts, src/src/services/base.service.ts).  *)
(*                                                                         *)
(* The persistence engine is a sequence of documents in insertion          *)
(* ("natural") order.  A query without a sort returns its first match in   *)
(* that order.  Every public Service operation is one action: the whole    *)
(* handler, from its first await to the value its promise settles with.    *)
(* Caller-supplied hooks and validators and the storage engine may fail;   *)
(* which of them fails during a call is an input of the call (fault).      *)
(* Calls that overlap are taken await by await (CallCreate, CallDeleteById, *)
(* CallFindAll, CallFindOne, Advance): calls holds the suspended handlers.  *)
(***************************************************************************)
EXTENDS Integers, Sequences, FiniteSets, TLC

VARIABLES
  cfg,      \* the merged configuration, fixed at construction
  store,    \* the collection: a sequence of documents in natural order
  nextId,   \* the next fresh identity the engine hands out
  now,      \* the wall clock, in seconds
  cache,    \* BaseService.cache: a set of [key, data, timestamp] entries
  env,      \* the callers: the values they pass and the failures they meet
  res,      \* the last public call: its arguments and what it settled with
  calls     \* the calls in flight: each one's position in its handler

vars == <<cfg, env, store, nextId, now, cache, res, calls>>

-----------------------------------------------------------------------------
(* Bounds of the model. *)

MaxRecords == 3     \* documents ever inserted
MaxTime == 3        \* seconds the clock may reach
CacheTtl == 2       \* config.cache.ttl of the modelled service, in seconds
MaxCalls == 2       \* calls in flight at once

(* Program constants. *)

DefaultLimit == 10
MaxLimit == 100
DefaultPage == 1
MsPerSecond == 1000
NullDate == 0       \* deletedAt: null

-----------------------------------------------------------------------------
(* Values. *)

Absent == "<undefined>"     \* a key the object does not carry
AnyValue == "<any>"         \* a field the filter does not constrain
Names == {"Alpha", "alpha"}
Emails == {"", "e1"}

\* JavaScript's !v on the values a field can take here.
Falsy(v) == v \in {Absent, ""}

\* utils.slugify, the default generator: lower-cases (and hyphenates).
Slugify(v) ==
  CASE v = "Alpha" -> "alpha"
    [] v = "alpha" -> "alpha"
    [] v = "Beta" -> "beta"
    [] OTHER -> v

\* the default uniqueResolver: `${baseSlug}-${count}`
UniqueResolver(baseSlug, count) == baseSlug \o "-" \o ToString(count)

NoNum == <<>>               \* an optional number that was not supplied
Num(n) == <<n>>

\* Date.now(), in milliseconds
DateNow == now * MsPerSecond

Max(a, b) == IF a >= b THEN a ELSE b
Min(a, b) == IF a <= b THEN a ELSE b

-----------------------------------------------------------------------------
(* Filters, as the repository hands them to the engine.                     *)
(* del: "any" no condition, "null" deletedAt: null, "set" deletedAt: $ne null *)

Filter(name, email, slug, id, idNe, del) ==
  [name |-> name, email |-> email, slug |-> slug, id |-> id, idNe |-> idNe, del |-> del]

EmptyQuery == Filter(AnyValue, AnyValue, AnyValue, 0, 0, "any")
ByName(n) == [EmptyQuery EXCEPT !.name = n]
ByEmail(e) == [EmptyQuery EXCEPT !.email = e]
BySlug(s) == [EmptyQuery EXCEPT !.slug = s]
ById(id) == [EmptyQuery EXCEPT !.id = id]

\* { ...query, deletedAt: null }
NotDeleted(q) == [q EXCEPT !.del = "null"]
\* { ...query, deletedAt: { $ne: null } }
OnlyDeleted(q) == [q EXCEPT !.del = "set"]
\* { ...query, _id: { $ne: excludeId } }; excludeId 0 is "not given"
ExcludeId(q, excludeId) == [q EXCEPT !.idNe = excludeId]

MatchesFilter(r, q) ==
  /\ q.name = AnyValue \/ r.name = q.name
  /\ q.email = AnyValue \/ r.email = q.email
  /\ q.slug = AnyValue \/ r.slug = q.slug
  /\ q.id = 0 \/ r.id = q.id
  /\ q.idNe = 0 \/ r.id # q.idNe
  /\ q.del = "any" \/ (q.del = "null" /\ r.deletedAt = NullDate)
                   \/ (q.del = "set" /\ r.deletedAt # NullDate)

-----------------------------------------------------------------------------
(* The engine. *)

RECURSIVE Reverse(_)
Reverse(s) == IF s = <<>> THEN <<>> ELSE Append(Reverse(Tail(s)), Head(s))

\* the documents matching q, in natural order
EngineMatches(s, q) == SelectSeq(s, LAMBDA r : MatchesFilter(r, q))

\* model.findOne(q): the first match, as a sequence of at most one document
EngineFindOne(s, q) ==
  LET m == EngineMatches(s, q) IN IF m = <<>> THEN <<>> ELSE <<Head(m)>>

\* the position in s of the document with identity id (0 when there is none)
IndexOfId(s, id) ==
  IF \E i \in 1..Len(s) : s[i].id = id
    THEN CHOOSE i \in 1..Len(s) : s[i].id = id
    ELSE 0

\* An update document.  A field left Absent is not written; deletedAt is
\* NoNum (not written) or Num(v) ($set to v; $unset is Num(NullDate):
\* a missing deletedAt satisfies { deletedAt: null } like a null one).
Patch(name, email, slug, deletedAt) ==
  [name |-> name, email |-> email, slug |-> slug, deletedAt |-> deletedAt]

ApplyPatch(r, p) ==
  [id |-> r.id,
   name |-> IF p.name = Absent THEN r.name ELSE p.name,
   email |-> IF p.email = Absent THEN r.email ELSE p.email,
   slug |-> IF p.slug = Absent THEN r.slug ELSE p.slug,
   deletedAt |-> IF p.deletedAt = NoNum THEN r.deletedAt ELSE p.deletedAt[1]]

\* model.findOneAndUpdate(q, p, { new: true }): [store, doc]
EngineFindOneAndUpdate(s, q, p) ==
  LET m == EngineFindOne(s, q) IN
  IF m = <<>> THEN [store |-> s, doc |-> <<>>]
  ELSE LET i == IndexOfId(s, m[1].id)
           d == ApplyPatch(s[i], p)
       IN [store |-> [s EXCEPT ![i] = d], doc |-> <<d>>]

\* model.findOneAndDelete(q): [store, doc]
EngineFindOneAndDelete(s, q) ==
  LET m == EngineFindOne(s, q) IN
  IF m = <<>> THEN [store |-> s, doc |-> <<>>]
  ELSE [store |-> SelectSeq(s, LAMBDA r : r.id # m[1].id), doc |-> m]

\* The first n elements of s.
Take(s, n) == SubSeq(s, 1, Min(n, Len(s)))
\* s without its first n elements.
Drop(s, n) == SubSeq(s, Min(n, Len(s)) + 1, Len(s))

\* model.find(q, null, { sort, skip, limit }) under the default sort
\* { createdAt: -1 }: newest first.  limit 0 is "no limit", a negative limit
\* returns |limit| documents; the engine rejects a negative skip.
EngineFindFails(opts) == opts.skip # NoNum /\ opts.skip[1] < 0

EngineFind(s, q, opts) ==
  LET sorted == Reverse(EngineMatches(s, q))
      skipped == IF opts.skip = NoNum THEN sorted ELSE Drop(sorted, opts.skip[1])
      lim == IF opts.limit = NoNum THEN 0 ELSE opts.limit[1]
  IN IF lim = 0 THEN skipped
     ELSE Take(skipped, IF lim < 0 THEN -lim ELSE lim)

NoOptions == [skip |-> NoNum, limit |-> NoNum]

\* model.updateMany(q, p): [store, count], count the modifiedCount (the
\* matched documents the update changed)
EngineUpdateMany(s, q, p) ==
  LET updated == [i \in 1..Len(s) |->
                    IF MatchesFilter(s[i], q) THEN ApplyPatch(s[i], p) ELSE s[i]]
  IN [store |-> updated,
      count |-> Cardinality({i \in 1..Len(s) : updated[i] # s[i]})]

\* model.deleteMany(q): [store, count], count the deletedCount
EngineDeleteMany(s, q) ==
  LET kept == SelectSeq(s, LAMBDA r : ~MatchesFilter(r, q))
  IN [store |-> kept, count |-> Len(s) - Len(kept)]

-----------------------------------------------------------------------------
(* BaseRepository. *)

\* a save that loses a field of the input
RepoCreateLossy(s, input, id) ==
  LET d == [id |-> id, name |-> input.name, email |-> Absent,
            slug |-> input.slug, deletedAt |-> NullDate]
  IN [store |-> Append(s, d), doc |-> <<d>>]

\* create(input): new this.model(input).save()
RepoCreate(s, input, id) ==
  LET d == [id |-> id, name |-> input.name, email |-> input.email,
            slug |-> input.slug, deletedAt |-> NullDate]
  IN [store |-> Append(s, d), doc |-> <<d>>]

RepoFindAll(s, q, opts, includeDeleted) ==
  EngineFind(s, IF includeDeleted THEN q ELSE NotDeleted(q), opts)

RepoFindById(s, id, includeDeleted) ==
  EngineFindOne(s, IF includeDeleted THEN ById(id) ELSE NotDeleted(ById(id)))

RepoFindOne(s, q, includeDeleted) ==
  EngineFindOne(s, IF includeDeleted THEN q ELSE NotDeleted(q))

RepoUpdate(s, q, p, includeDeleted) ==
  EngineFindOneAndUpdate(s, IF includeDeleted THEN q ELSE NotDeleted(q), p)

\* findByIdAndUpdate(objectId, update): no deletedAt condition
RepoUpdateById(s, id, p) == EngineFindOneAndUpdate(s, ById(id), p)

SetDeletedAt(t) == Patch(Absent, Absent, Absent, Num(t))
UnsetDeletedAt == Patch(Absent, Absent, Absent, Num(NullDate))

\* a delete that ignores the softDelete argument and always soft-deletes
RepoDeleteAlwaysSoft(s, q, softDelete, t) == RepoUpdate(s, q, SetDeletedAt(t), TRUE)

RepoDelete(s, q, softDelete, t) ==
  IF softDelete
    THEN RepoUpdate(s, q, SetDeletedAt(t), TRUE)
    ELSE EngineFindOneAndDelete(s, q)

RepoDeleteById(s, id, softDelete, t) ==
  IF softDelete
    THEN RepoUpdateById(s, id, SetDeletedAt(t))
    ELSE EngineFindOneAndDelete(s, ById(id))

RepoRestore(s, q) ==
  LET deletedDoc == RepoFindOne(s, OnlyDeleted(q), TRUE) IN
  IF deletedDoc = <<>> THEN [store |-> s, doc |-> <<>>]
  ELSE RepoUpdate(s, ById(deletedDoc[1].id), UnsetDeletedAt, TRUE)

RepoRestoreById(s, id) ==
  LET deletedDoc == RepoFindById(s, id, TRUE) IN
  IF deletedDoc = <<>> THEN [store |-> s, doc |-> <<>>]
  ELSE RepoUpdate(s, ById(id), UnsetDeletedAt, TRUE)

\* updateMany(filter, update): { ...filter, deletedAt: null }
RepoUpdateMany(s, filter, p) == EngineUpdateMany(s, NotDeleted(filter), p)

\* deleteMany(filter, softDelete): the filter as given, no deletedAt condition
RepoDeleteMany(s, filter, softDelete, t) ==
  IF softDelete THEN EngineUpdateMany(s, filter, SetDeletedAt(t))
  ELSE EngineDeleteMany(s, filter)

\* restoreMany(filter): { ...filter, deletedAt: { $ne: null } }
RepoRestoreMany(s, filter) == EngineUpdateMany(s, OnlyDeleted(filter), UnsetDeletedAt)

RepoCountDocuments(s, q, includeDeleted) ==
  Len(EngineMatches(s, IF includeDeleted THEN q ELSE NotDeleted(q)))

RepoExists(s, q, includeDeleted) ==
  EngineMatches(s, IF includeDeleted THEN q ELSE NotDeleted(q)) # <<>>

-----------------------------------------------------------------------------
(* BaseService: the private helpers. *)

NoError == "none"

\* the existence query without the $ne clause on the record's own id
ValidateUniqueFieldsNoExclude(s, doc, excludeId) ==
  /\ cfg.unique
  /\ ~Falsy(doc.email)
  /\ RepoExists(s, ByEmail(doc.email), FALSE)

\* validateUniqueFields(doc, excludeId) throws UNIQUE_FIELD_ERROR.
\* The schema's one unique-flagged path is email (cfg.unique).
ValidateUniqueFieldsThrows(s, doc, excludeId) ==
  /\ cfg.unique
  /\ ~Falsy(doc.email)
  /\ RepoExists(s, ExcludeId(ByEmail(doc.email), excludeId), FALSE)

\* the loop with a counter that is one ahead of the suffix it should give
RECURSIVE SlugLoopCountAhead(_, _, _, _)
SlugLoopCountAhead(s, sourceValue, count, excludeId) ==
  LET slug == IF count = 0 THEN Slugify(sourceValue)
              ELSE UniqueResolver(Slugify(sourceValue), count + 1)
  IN IF ~RepoExists(s, ExcludeId(BySlug(slug), excludeId), FALSE)
       THEN [slug |-> slug, queries |-> count + 1]
       ELSE SlugLoopCountAhead(s, sourceValue, count + 1, excludeId)

\* the loop that takes the first regenerated slug without querying for it
SlugLoopOnce(s, sourceValue, count, excludeId) ==
  LET slug == Slugify(sourceValue)
  IN IF ~RepoExists(s, ExcludeId(BySlug(slug), excludeId), FALSE)
       THEN [slug |-> slug, queries |-> 1]
       ELSE [slug |-> UniqueResolver(slug, 1), queries |-> 1]

\* The while (true) loop of generateUniqueSlug: [slug, queries], the slug it
\* exits with and the number of existence queries it issued.
RECURSIVE SlugLoop(_, _, _, _)
SlugLoop(s, sourceValue, count, excludeId) ==
  LET slug == IF count = 0 THEN Slugify(sourceValue)
              ELSE UniqueResolver(Slugify(sourceValue), count)
  IN IF ~RepoExists(s, ExcludeId(BySlug(slug), excludeId), FALSE)
       THEN [slug |-> slug, queries |-> count + 1]
       ELSE SlugLoop(s, sourceValue, count + 1, excludeId)

\* generateUniqueSlug(doc, excludeId): [threw, doc, queries]
GenerateUniqueSlug(s, doc, excludeId) ==
  IF ~cfg.slug THEN [threw |-> FALSE, doc |-> doc, queries |-> 0]
  ELSE IF doc.name = Absent THEN [threw |-> TRUE, doc |-> doc, queries |-> 0]
  ELSE IF Falsy(doc.name) THEN [threw |-> FALSE, doc |-> doc, queries |-> 0]
  ELSE LET l == SlugLoop(s, doc.name, 0, excludeId)
       IN [threw |-> FALSE, doc |-> [doc EXCEPT !.slug = l.slug], queries |-> l.queries]

-----------------------------------------------------------------------------
(* Calls and what they settle with. *)

NoInput == [name |-> Absent, email |-> Absent, slug |-> Absent]
Input(name, email) == [name |-> name, email |-> email, slug |-> Absent]

\* an include / exclude option of exportData: a list of field names, or
\* the option left out
Fields(list) == [given |-> TRUE, fields |-> list]
NoFields == [given |-> FALSE, fields |-> <<>>]

NoArgs ==
  [query |-> EmptyQuery, id |-> 0, input |-> NoInput, includeDeleted |-> FALSE,
   page |-> NoNum, limit |-> NoNum, paginate |-> TRUE, fault |-> "none",
   members |-> <<>>, member |-> 0, validate |-> FALSE, softOpt |-> "config",
   include |-> NoFields, exclude |-> NoFields, race |-> "none"]

\* Math.ceil(results / finalLimit) is a number, Infinity or NaN.
Pages(kind, n) == [kind |-> kind, n |-> n]

NoMeta ==
  [present |-> FALSE, total |-> 0, results |-> 0, paged |-> FALSE, page |-> 0,
   limit |-> 0, totalPages |-> Pages("none", 0), remainingItems |-> 0,
   pageItemsCount |-> 0]

\* status: "ok" the success envelope, "error" the error envelope,
\* "rejected" the returned promise rejects (an exception reaches the caller).
Result(op, args, status, code, docs, meta, trace, loaded, hitDb) ==
  [op |-> op, args |-> args, status |-> status, code |-> code, docs |-> docs,
   meta |-> meta, trace |-> trace, loaded |-> loaded, hitDb |-> hitDb,
   at |-> DateNow, count |-> NoNum]

NoCall == Result("none", NoArgs, "ok", NoError, <<>>, NoMeta, <<>>, <<>>, FALSE)

-----------------------------------------------------------------------------
(* The write pipelines.  A pipeline is the sequence of awaits of the        *)
(* handler's try block; the first one that throws ends it.                  *)

State(args, s, id) ==
  [args |-> args, doc |-> args.input, store |-> s, nextId |-> id, err |-> NoError,
   trace |-> <<>>, loaded |-> <<>>, out |-> <<>>]

Fail(st, code) == [st EXCEPT !.err = code]
Called(st, stage) == [st EXCEPT !.trace = Append(@, stage)]

\* stages that call caller-supplied code: run only when it is configured
HookStages ==
  {"beforeCreate", "afterCreate", "beforeUpdate", "afterUpdate", "beforeDelete",
   "afterDelete", "preValidate", "customValidators", "postValidate"}

\* the code a thrown plain Error is wrapped into
GenericCode(op) ==
  IF op \in {"restore", "restoreById"} THEN "RESTORE_ERROR" ELSE "DATABASE_ERROR"

\* executeHook / preValidate / postValidate: the supplied function throws
HookStep(op, stage, st, fault) ==
  IF ~cfg.hooks THEN st
  ELSE IF fault = stage THEN Fail(Called(st, stage), GenericCode(op))
  ELSE Called(st, stage)

\* runCustomValidators: the validator of name runs when the input carries
\* name, and a false result throws VALIDATION_ERROR
ValidatorStep(st, fault) ==
  IF ~cfg.hooks THEN st
  ELSE IF fault = "customValidators" /\ st.doc.name # Absent
    THEN Fail(Called(st, "customValidators"), "VALIDATION_ERROR")
  ELSE Called(st, "customValidators")

UniqueStep(st, excludeId) ==
  IF ValidateUniqueFieldsThrows(st.store, st.doc, excludeId)
    THEN Fail(Called(st, "validateUniqueFields"), "UNIQUE_FIELD_ERROR")
    ELSE Called(st, "validateUniqueFields")

\* the result of a repository write: null is NOT_FOUND_ERROR
Persisted(st, w) ==
  IF w.doc = <<>> THEN Fail(Called(st, "persist"), "NOT_FOUND_ERROR")
  ELSE [Called(st, "persist") EXCEPT !.store = w.store, !.out = w.doc]

\* the load step of update and delete
Loaded(st, m, code) ==
  IF m = <<>> THEN Fail(Called(st, "load"), code)
  ELSE [Called(st, "load") EXCEPT !.loaded = m]

CreateStages ==
  <<"beforeCreate", "validateUniqueFields", "preValidate", "customValidators",
    "postValidate", "generateUniqueSlug", "persist", "afterCreate">>

CreateStep(stage, st, fault) ==
  CASE stage \in {"beforeCreate", "preValidate", "postValidate", "afterCreate"} ->
         HookStep("create", stage, st, fault)
    [] stage = "customValidators" -> ValidatorStep(st, fault)
    [] stage = "validateUniqueFields" -> UniqueStep(st, 0)
    [] stage = "generateUniqueSlug" ->
         LET g == GenerateUniqueSlug(st.store, st.doc, 0) IN
         IF g.threw THEN Fail(Called(st, stage), "DATABASE_ERROR")
         ELSE [Called(st, stage) EXCEPT !.doc = g.doc]
    [] stage = "persist" ->
         IF fault = stage THEN Fail(Called(st, stage), "DATABASE_ERROR")
         ELSE LET w == RepoCreate(st.store, st.doc, st.nextId) IN
              [Called(st, stage) EXCEPT !.store = w.store, !.out = w.doc,
                                        !.nextId = @ + 1]

UpdateStages ==
  <<"load", "beforeUpdate", "validateUniqueFields", "preValidate",
    "customValidators", "postValidate", "generateUniqueSlug", "persist",
    "afterUpdate">>

UpdatePatch(input) == Patch(input.name, input.email, input.slug, NoNum)

\* update(query, updateInput, includeDeleted)
UpdateStep(stage, st, fault) ==
  CASE stage = "load" ->
         Loaded(st, RepoFindOne(st.store, st.args.query, st.args.includeDeleted),
                "NOT_FOUND_ERROR")
    [] stage \in {"beforeUpdate", "preValidate", "postValidate", "afterUpdate"} ->
         HookStep("update", stage, st, fault)
    [] stage = "customValidators" -> ValidatorStep(st, fault)
    [] stage = "validateUniqueFields" -> UniqueStep(st, st.loaded[1].id)
    [] stage = "generateUniqueSlug" ->
         \* the slug is assigned to a copy of updateInput, which is dropped
         IF cfg.slug /\ st.doc.name # st.loaded[1].name
           THEN IF GenerateUniqueSlug(st.store, st.doc, st.loaded[1].id).threw
                  THEN Fail(Called(st, stage), "DATABASE_ERROR")
                  ELSE Called(st, stage)
           ELSE st
    [] stage = "persist" ->
         IF fault = stage THEN Fail(Called(st, stage), "DATABASE_ERROR")
         ELSE Persisted(st, RepoUpdate(st.store, st.args.query, UpdatePatch(st.doc),
                                       st.args.includeDeleted))

UpdateByIdStages ==
  <<"load", "beforeUpdate", "validateUniqueFields", "preValidate",
    "customValidators", "postValidate", "persist", "afterUpdate">>

UpdateByIdStep(stage, st, fault) ==
  CASE stage = "load" ->
         Loaded(st, RepoFindById(st.store, st.args.id, FALSE), "NOT_FOUND_ERROR")
    [] stage \in {"beforeUpdate", "preValidate", "postValidate", "afterUpdate"} ->
         HookStep("updateById", stage, st, fault)
    [] stage = "customValidators" -> ValidatorStep(st, fault)
    [] stage = "validateUniqueFields" -> UniqueStep(st, st.loaded[1].id)
    [] stage = "persist" ->
         IF fault = stage THEN Fail(Called(st, stage), "DATABASE_ERROR")
         ELSE Persisted(st, RepoUpdateById(st.store, st.args.id, UpdatePatch(st.doc)))

DeleteStages == <<"load", "beforeDelete", "persist", "afterDelete">>

DeleteStep(stage, st, fault) ==
  CASE stage = "load" ->
         Loaded(st, RepoFindOne(st.store, st.args.query, FALSE), "NOT_FOUND_ERROR")
    [] stage \in {"beforeDelete", "afterDelete"} -> HookStep("delete", stage, st, fault)
    [] stage = "persist" ->
         IF fault = stage THEN Fail(Called(st, stage), "DATABASE_ERROR")
         ELSE Persisted(st, RepoDelete(st.store, st.args.query, cfg.softDelete, DateNow))

DeleteByIdStep(stage, st, fault) ==
  CASE stage = "load" ->
         Loaded(st, RepoFindById(st.store, st.args.id, FALSE), "NOT_FOUND_ERROR")
    [] stage \in {"beforeDelete", "afterDelete"} ->
         HookStep("deleteById", stage, st, fault)
    [] stage = "persist" ->
         IF fault = stage THEN Fail(Called(st, stage), "DATABASE_ERROR")
         ELSE Persisted(st, RepoDeleteById(st.store, st.args.id, cfg.softDelete, DateNow))

RestoreStages == <<"persist">>

\* st.loaded is the deletedDoc the repository finds before it updates
RestoreStep(stage, st, fault) ==
  IF fault = stage THEN Fail(Called(st, stage), "RESTORE_ERROR")
  ELSE Persisted([st EXCEPT !.loaded = RepoFindOne(st.store, OnlyDeleted(st.args.query), TRUE)],
                 RepoRestore(st.store, st.args.query))

RestoreByIdStep(stage, st, fault) ==
  IF fault = stage THEN Fail(Called(st, stage), "RESTORE_ERROR")
  ELSE Persisted([st EXCEPT !.loaded = RepoFindById(st.store, st.args.id, TRUE)],
                 RepoRestoreById(st.store, st.args.id))

Step(op, stage, st, fault) ==
  CASE op = "create" -> CreateStep(stage, st, fault)
    [] op = "update" -> UpdateStep(stage, st, fault)
    [] op = "updateById" -> UpdateByIdStep(stage, st, fault)
    [] op = "delete" -> DeleteStep(stage, st, fault)
    [] op = "deleteById" -> DeleteByIdStep(stage, st, fault)
    [] op = "restore" -> RestoreStep(stage, st, fault)
    [] op = "restoreById" -> RestoreByIdStep(stage, st, fault)

\* a try block whose awaits go on after one of them has thrown
RECURSIVE RunStagesNoAbort(_, _, _, _)
RunStagesNoAbort(op, stages, st, fault) ==
  IF stages = <<>> THEN st
  ELSE RunStagesNoAbort(op, Tail(stages), Step(op, Head(stages), st, fault), fault)

\* the try block: each await in turn, until one throws
RECURSIVE RunStages(_, _, _, _)
RunStages(op, stages, st, fault) ==
  IF stages = <<>> \/ st.err # NoError THEN st
  ELSE RunStages(op, Tail(stages), Step(op, Head(stages), st, fault), fault)

\* the envelope of a write: the catch block turns every throw into the
\* error branch
Settle(op, st) ==
  Result(op, st.args, IF st.err = NoError THEN "ok" ELSE "error", st.err,
         IF st.err = NoError THEN st.out ELSE <<>>, NoMeta, st.trace, st.loaded,
         FALSE)

\* a write that empties the cache
WriteInvalidating(op, stages, args) ==
  LET st == RunStages(op, stages, State(args, store, nextId), args.fault) IN
  /\ store' = st.store
  /\ nextId' = st.nextId
  /\ res' = Settle(op, st)
  /\ cache' = {}
  /\ UNCHANGED <<cfg, env, calls, now>>

Write(op, stages, args) ==
  LET st == RunStages(op, stages, State(args, store, nextId), args.fault) IN
  /\ store' = st.store
  /\ nextId' = st.nextId
  /\ res' = Settle(op, st)
  /\ UNCHANGED <<cfg, env, calls, now, cache>>

\* Another caller's deleteById of the loaded record (race: "soft" or "hard")
\* runs to completion while this call is suspended at an await
Raced(st, race) ==
  IF st.err # NoError \/ st.loaded = <<>> THEN st
  ELSE [st EXCEPT !.store = RepoDeleteById(@, st.loaded[1].id, race = "soft",
                                           DateNow).store]

\* update / updateById whose awaits up to the validation have completed when
\* the other caller's delete runs; its persist and afterUpdate steps follow
WriteRaced(op, stages, args) ==
  LET st == RunStages(op, <<"persist", "afterUpdate">>,
                      Raced(RunStages(op, SubSeq(stages, 1, Len(stages) - 2),
                                      State(args, store, nextId), args.fault),
                            args.race),
                      args.fault) IN
  /\ store' = st.store
  /\ nextId' = st.nextId
  /\ res' = Settle(op, st)
  /\ UNCHANGED <<cfg, env, calls, now, cache>>

-----------------------------------------------------------------------------
(* The reads and the cache. *)

\* getCacheKey(method, arguments[0]): findOne's first argument is its query,
\* findAll's is its whole options object.
FindOneKey(args) ==
  [method |-> "findOne", query |-> args.query, page |-> NoNum, limit |-> NoNum,
   paginate |-> TRUE, includeDeleted |-> FALSE]

FindAllKey(args) ==
  [method |-> "findAll", query |-> args.query, page |-> args.page,
   limit |-> args.limit, paginate |-> args.paginate,
   includeDeleted |-> args.includeDeleted]

\* an entry that still counts as fresh when it is exactly ttl seconds old
CacheFreshAtTtl(e) == DateNow - e.timestamp <= cfg.ttl * MsPerSecond

\* Date.now() - cached.timestamp < this.config.cache.ttl * 1000
CacheFresh(e) == DateNow - e.timestamp < cfg.ttl * MsPerSecond

\* the entry getCachedData answers from, as a set of at most one entry
CacheHit(key) ==
  IF cfg.cache THEN {e \in cache : e.key = key /\ CacheFresh(e)} ELSE {}

\* this.cache.set(key, { data, timestamp: Date.now() })
CacheSet(key, data) ==
  {e \in cache : e.key # key} \cup {[key |-> key, data |-> data, timestamp |-> DateNow]}

Computed(threw, code, docs, meta) ==
  [threw |-> threw, code |-> code, docs |-> docs, meta |-> meta]

\* Math.ceil(a / b) for integers a >= 0 and b
CeilDiv(a, b) ==
  IF b = 0 THEN Pages(IF a = 0 THEN "NaN" ELSE "Infinity", 0)
  ELSE IF b > 0 THEN Pages("number", -((-a) \div b))
  ELSE Pages("number", -(a \div (-b)))

FinalPage(page) == Max(1, IF page = NoNum THEN DefaultPage ELSE page[1])
FinalLimit(limit) ==
  Min(cfg.maxLimit, IF limit = NoNum THEN cfg.defaultLimit ELSE limit[1])

RemainingItems(results, finalPage, finalLimit) ==
  LET remaining == results - finalPage * finalLimit
  IN IF remaining > 0 THEN remaining ELSE 0

\* the getter of findAll
FindAllGetter(s, args) ==
  LET finalPage == FinalPage(args.page)
      finalLimit == FinalLimit(args.limit)
      options == IF args.paginate
                   THEN [skip |-> Num((finalPage - 1) * finalLimit),
                         limit |-> Num(finalLimit)]
                   ELSE NoOptions
      documents == RepoFindAll(s, args.query, options, args.includeDeleted)
      total == RepoCountDocuments(s, EmptyQuery, args.includeDeleted)
      results == RepoCountDocuments(s, args.query, args.includeDeleted)
      meta == IF args.paginate
                THEN [present |-> TRUE, total |-> total, results |-> results,
                      paged |-> TRUE, page |-> finalPage, limit |-> finalLimit,
                      totalPages |-> CeilDiv(results, finalLimit),
                      remainingItems |-> RemainingItems(results, finalPage, finalLimit),
                      pageItemsCount |-> Len(documents)]
                ELSE [NoMeta EXCEPT !.present = TRUE, !.total = total,
                                    !.results = results]
  IN IF args.fault = "storage" \/ EngineFindFails(options)
       THEN Computed(TRUE, "DATABASE_ERROR", <<>>, NoMeta)
       ELSE Computed(FALSE, NoError, documents, meta)

\* the getter of findOne
FindOneGetter(s, args) ==
  LET document == RepoFindOne(s, args.query, args.includeDeleted) IN
  IF args.fault = "storage" THEN Computed(TRUE, "DATABASE_ERROR", <<>>, NoMeta)
  ELSE IF document = <<>> THEN Computed(TRUE, "NOT_FOUND_ERROR", <<>>, NoMeta)
  ELSE Computed(FALSE, NoError, document, NoMeta)

\* What a handler of the shape  try { return this.getCachedData(key, getter) }
\* catch { error envelope }  settles with: the promise is returned without
\* await, so a getter that throws rejects the caller's promise.
Uncaught(c) == IF c.threw THEN "rejected" ELSE "ok"

\* What a handler of the shape  try { await ... } catch { error envelope }
\* settles with.
Caught(c) == IF c.threw THEN "error" ELSE "ok"

\* getCachedData that stores whatever the getter ended with, a failure too
CachedReadStoringFailure(op, args, key, c) ==
  LET hit == CacheHit(key) IN
  IF hit # {}
    THEN LET e == CHOOSE e \in hit : TRUE IN
         /\ res' = Result(op, args, "ok", NoError, e.data.docs, e.data.meta,
                          <<>>, <<>>, FALSE)
         /\ cache' = cache
    ELSE /\ res' = Result(op, args, Uncaught(c), c.code, c.docs, c.meta,
                          <<>>, <<>>, TRUE)
         /\ cache' = IF cfg.cache
                       THEN CacheSet(key, [docs |-> c.docs, meta |-> c.meta])
                       ELSE cache

\* getCachedData(key, getter) inside findAll / findOne
CachedRead(op, args, key, c) ==
  LET hit == CacheHit(key) IN
  IF hit # {}
    THEN LET e == CHOOSE e \in hit : TRUE IN
         /\ res' = Result(op, args, "ok", NoError, e.data.docs, e.data.meta,
                          <<>>, <<>>, FALSE)
         /\ cache' = cache
    ELSE /\ res' = Result(op, args, Uncaught(c), c.code, c.docs, c.meta,
                          <<>>, <<>>, TRUE)
         /\ cache' = IF cfg.cache /\ ~c.threw
                       THEN CacheSet(key, [docs |-> c.docs, meta |-> c.meta])
                       ELSE cache

ServiceFindAll(args) ==
  /\ CachedRead("findAll", args, FindAllKey(args), FindAllGetter(store, args))
  /\ UNCHANGED <<cfg, env, calls, store, nextId, now>>

ServiceFindOne(args) ==
  /\ CachedRead("findOne", args, FindOneKey(args), FindOneGetter(store, args))
  /\ UNCHANGED <<cfg, env, calls, store, nextId, now>>

\* the try block of findById
FindByIdGetter(s, args) ==
  LET document == RepoFindById(s, args.id, args.includeDeleted) IN
  IF args.fault = "storage" THEN Computed(TRUE, "DATABASE_ERROR", <<>>, NoMeta)
  ELSE IF document = <<>> THEN Computed(TRUE, "NOT_FOUND_ERROR", <<>>, NoMeta)
  ELSE Computed(FALSE, NoError, document, NoMeta)

ServiceFindById(args) ==
  LET c == FindByIdGetter(store, args) IN
  /\ res' = Result("findById", args, Caught(c), c.code, c.docs, c.meta,
                   <<>>, <<>>, TRUE)
  /\ UNCHANGED <<cfg, env, calls, store, nextId, now, cache>>

\* restore / restoreById / batchRestore without soft delete
NotSupported(op, args) ==
  /\ res' = Result(op, args, "error", "OPERATION_NOT_SUPPORTED", <<>>, NoMeta,
                   <<>>, <<>>, FALSE)
  /\ UNCHANGED <<cfg, env, calls, store, nextId, now, cache>>

-----------------------------------------------------------------------------
(* Calls in flight.  A handler is suspended at each of its awaits, and the   *)
(* awaits of other calls may run in between; one await is one step.  A call  *)
(* that has settled stays in calls, with its result, until the callers drop  *)
(* their promises.                                                           *)

\* the locals of a suspended handler: everything but the collection
Locals(st) == [st EXCEPT !.store = <<>>, !.nextId = 0]

\* the handler goes on against the collection as it is now
Resumed(st) == [st EXCEPT !.store = store, !.nextId = nextId]

\* overlaps: the calls that had not settled when this one was made
InFlight(op, args, left) ==
  [op |-> op, args |-> args, left |-> left, st |-> Locals(State(args, <<>>, 0)),
   result |-> <<>>,
   overlaps |-> {k \in 1..Len(calls) : calls[k].left # <<>>}]

Settled(c, r) == [c EXCEPT !.left = <<>>, !.result = <<r>>]

\* a write is called: nothing has run yet
CallWrite(op, stages, args) ==
  /\ Len(calls) < env.calls
  /\ calls' = Append(calls, InFlight(op, args, stages))
  /\ UNCHANGED <<cfg, env, store, nextId, now, cache, res>>

\* the next await of the write calls[i]
AdvanceWrite(i) ==
  LET c == calls[i]
      st == Step(c.op, Head(c.left), Resumed(c.st), c.args.fault)
      done == st.err # NoError \/ Tail(c.left) = <<>>
  IN /\ store' = st.store
     /\ nextId' = st.nextId
     /\ calls' = [calls EXCEPT ![i] =
                    IF done THEN Settled([c EXCEPT !.st = Locals(st)], Settle(c.op, st))
                    ELSE [c EXCEPT !.left = Tail(@), !.st = Locals(st)]]
     /\ res' = IF done THEN Settle(c.op, st) ELSE res
     /\ UNCHANGED <<cfg, env, now, cache>>

CacheKey(op, args) == IF op = "findAll" THEN FindAllKey(args) ELSE FindOneKey(args)

Getter(op, s, args) ==
  IF op = "findAll" THEN FindAllGetter(s, args) ELSE FindOneGetter(s, args)

\* findAll / findOne is called: getCachedData runs up to its await, and a
\* fresh entry settles the call at once
CallRead(op, args) ==
  LET hit == CacheHit(CacheKey(op, args))
      c == InFlight(op, args, IF cfg.cache THEN <<"getter", "set">> ELSE <<"getter">>)
  IN /\ Len(calls) < env.calls
     /\ IF hit # {}
          THEN LET e == CHOOSE e \in hit : TRUE
                   r == Result(op, args, "ok", NoError, e.data.docs, e.data.meta,
                               <<>>, <<>>, FALSE)
               IN calls' = Append(calls, Settled(c, r)) /\ res' = r
          ELSE calls' = Append(calls, c) /\ res' = res
     /\ UNCHANGED <<cfg, env, store, nextId, now, cache>>

\* the next await of the read calls[i]: the getter's queries, then
\* this.cache.set and the return
AdvanceRead(i) ==
  LET c == calls[i]
      g == IF Head(c.left) = "getter" THEN Getter(c.op, store, c.args) ELSE c.st.out[1]
      st == [Called(c.st, Head(c.left)) EXCEPT !.out = <<g>>]
      done == g.threw \/ Tail(c.left) = <<>>
      r == Result(c.op, c.args, Uncaught(g), g.code, g.docs, g.meta, st.trace,
                  <<>>, TRUE)
  IN /\ calls' = [calls EXCEPT ![i] =
                    IF done THEN Settled([c EXCEPT !.st = st], r)
                    ELSE [c EXCEPT !.left = Tail(@), !.st = st]]
     /\ res' = IF done THEN r ELSE res
     /\ cache' = IF Head(c.left) = "set"
                   THEN CacheSet(CacheKey(c.op, c.args), [docs |-> g.docs, meta |-> g.meta])
                   ELSE cache
     /\ UNCHANGED <<cfg, env, store, nextId, now>>

-----------------------------------------------------------------------------
(* The batch operations.  Promise.all starts every member; a member that    *)
(* throws rejects the whole call while the other members still run to       *)
(* completion.  The members are applied in the order of the array.          *)

\* one member of a batch: a filter and, for batchUpdate, an update
Member(filter, update) == [filter |-> filter, update |-> update]

Batch(s) == [store |-> s, count |-> 0, err |-> NoError]

ValidationStages == {"preValidate", "customValidators", "postValidate"}

BatchCode(op) ==
  CASE op = "batchUpdate" -> "BATCH_UPDATE_ERROR"
    [] op = "batchDelete" -> "BATCH_DELETE_ERROR"
    [] op = "batchRestore" -> "BATCH_RESTORE_ERROR"

\* the member's write went through
Counted(b, w) == [b EXCEPT !.store = w.store, !.count = @ + w.count]
\* a member's failure that is swallowed, the other members' total standing
ThrownIgnored(b, code) == b

\* the member threw: the first rejection is the one Promise.all reports
Thrown(b, code) == [b EXCEPT !.err = IF @ = NoError THEN code ELSE @]

\* validateEach: validateDocument({ ...doc, ...update }) for every live match
ValidateEachThrows(s, m, fault) ==
  LET docsToUpdate == RepoFindAll(s, m.filter, NoOptions, FALSE) IN
  /\ cfg.hooks
  /\ fault \in ValidationStages
  /\ docsToUpdate # <<>>
  /\ fault = "customValidators" =>
       \E i \in 1..Len(docsToUpdate) :
         ApplyPatch(docsToUpdate[i], UpdatePatch(m.update)).name # Absent

BatchUpdateMember(b, m, args, failing) ==
  IF failing /\ args.validate /\ ValidateEachThrows(b.store, m, args.fault)
    THEN Thrown(b, IF args.fault = "customValidators" THEN "VALIDATION_ERROR"
                   ELSE BatchCode("batchUpdate"))
  ELSE IF failing /\ args.fault = "persist" THEN Thrown(b, BatchCode("batchUpdate"))
  ELSE Counted(b, RepoUpdateMany(b.store, m.filter, UpdatePatch(m.update)))

\* options.softDelete ?? this.config.softDelete
BatchSoftDelete(args) ==
  IF args.softOpt = "config" THEN cfg.softDelete ELSE args.softOpt = "soft"

BatchDeleteMember(b, m, args, failing) ==
  IF args.validate /\ RepoFindAll(b.store, m.filter, NoOptions, FALSE) = <<>>
    THEN b
  ELSE IF failing /\ args.fault = "persist" THEN Thrown(b, BatchCode("batchDelete"))
  ELSE Counted(b, RepoDeleteMany(b.store, m.filter, BatchSoftDelete(args), DateNow))

\* validateBeforeRestore looks the documents up through findAll, whose
\* default visibility replaces the deletedAt condition of the filter
BatchRestoreMember(b, m, args, failing) ==
  IF args.validate /\ RepoFindAll(b.store, OnlyDeleted(m.filter), NoOptions, FALSE) = <<>>
    THEN b
  ELSE IF failing /\ args.fault = "persist" THEN Thrown(b, BatchCode("batchRestore"))
  ELSE Counted(b, RepoRestoreMany(b.store, m.filter))

BatchMember(op, b, m, args, failing) ==
  CASE op = "batchUpdate" -> BatchUpdateMember(b, m, args, failing)
    [] op = "batchDelete" -> BatchDeleteMember(b, m, args, failing)
    [] op = "batchRestore" -> BatchRestoreMember(b, m, args, failing)

RECURSIVE RunMembers(_, _, _, _, _)
RunMembers(op, b, members, i, args) ==
  IF i > Len(members) THEN b
  ELSE RunMembers(op, BatchMember(op, b, members[i], args, args.member = i),
                  members, i + 1, args)

\* the envelope of a batch: the total on success, no count on failure
ServiceBatch(op, args) ==
  LET b == RunMembers(op, Batch(store), args.members, 1, args) IN
  /\ store' = b.store
  /\ res' = IF b.err = NoError
              THEN [Result(op, args, "ok", NoError, <<>>, NoMeta, <<>>, <<>>, FALSE)
                      EXCEPT !.count = Num(b.count)]
              ELSE Result(op, args, "error", b.err, <<>>, NoMeta, <<>>, <<>>, FALSE)
  /\ UNCHANGED <<cfg, env, calls, nextId, now, cache>>

-----------------------------------------------------------------------------
(* exportData, format 'json'. *)

\* Object.keys(this.repository.getModel().schema.paths)
SchemaFields == {"id", "name", "email", "slug", "deletedAt"}

\* the fields of the output rows
ExportFieldsAll(include, exclude) == SchemaFields

ExportFields(include, exclude) ==
  IF include.given THEN {include.fields[i] : i \in 1..Len(include.fields)}
  ELSE IF exclude.given
    THEN SchemaFields \ {exclude.fields[i] : i \in 1..Len(exclude.fields)}
  ELSE SchemaFields

\* fields.reduce((acc, field) => { acc[field] = doc.get(field) }, {})
ExportRow(doc, fields) ==
  [f \in fields |-> IF f \in DOMAIN doc THEN doc[f] ELSE Absent]

\* the envelope of exportData over the documents its findAll returned
Exported(args, documents, hitDb) ==
  LET fields == ExportFields(args.include, args.exclude) IN
  Result("exportData", args, "ok", NoError,
         [i \in 1..Len(documents) |-> ExportRow(documents[i], fields)],
         NoMeta, <<>>, <<>>, hitDb)

\* exportData(query, 'json', { include, exclude }): the documents come from
\* this.findAll({ query }), through its cache and with its default paging
ServiceExport(args) ==
  LET read == [NoArgs EXCEPT !.query = args.query, !.fault = args.fault]
      hit == CacheHit(FindAllKey(read))
      c == FindAllGetter(store, read)
  IN /\ res' = IF args.include.given /\ args.exclude.given
                 THEN Result("exportData", args, "error", "EXPORT_ERROR", <<>>,
                             NoMeta, <<>>, <<>>, FALSE)
               ELSE IF hit # {}
                 THEN Exported(args, (CHOOSE e \in hit : TRUE).data.docs, FALSE)
               ELSE IF c.threw
                 THEN Result("exportData", args, "error", "EXPORT_ERROR", <<>>,
                             NoMeta, <<>>, <<>>, TRUE)
               ELSE Exported(args, c.docs, TRUE)
     /\ cache' = IF (args.include.given /\ args.exclude.given) \/ hit # {}
                    \/ ~cfg.cache \/ c.threw
                   THEN cache
                   ELSE CacheSet(FindAllKey(read), [docs |-> c.docs, meta |-> c.meta])
     /\ UNCHANGED <<cfg, env, calls, store, nextId, now>>

-----------------------------------------------------------------------------
(* clone, the bulk operations and batchCreate. *)

\* { ...doc.toObject(), ...override, _id: undefined, deletedAt: undefined }
CloneData(doc, override) ==
  [name |-> IF override.name # Absent THEN override.name ELSE doc.name,
   email |-> IF override.email # Absent THEN override.email ELSE doc.email,
   slug |-> IF override.slug # Absent THEN override.slug ELSE doc.slug]

\* clone(id, override): the source is looked up among the live records and
\* its data goes through create
ServiceClone(args) ==
  LET doc == RepoFindById(store, args.id, FALSE) IN
  IF doc = <<>>
    THEN /\ res' = Result("clone", args, "error", "NOT_FOUND_ERROR", <<>>, NoMeta,
                          <<>>, <<>>, FALSE)
         /\ UNCHANGED <<cfg, env, calls, store, nextId, now, cache>>
    ELSE LET st == RunStages("create", CreateStages,
                             [State(args, store, nextId)
                                EXCEPT !.doc = CloneData(doc[1], args.input),
                                       !.loaded = doc],
                             args.fault) IN
         /\ store' = st.store
         /\ nextId' = st.nextId
         /\ res' = Settle("clone", st)
         /\ UNCHANGED <<cfg, env, calls, now, cache>>

BulkCode(op) ==
  CASE op = "bulkCreate" -> "BULK_CREATE_ERROR"
    [] op = "bulkUpdate" -> "BULK_UPDATE_ERROR"
    [] op = "bulkDelete" -> "BULK_DELETE_ERROR"
    [] op = "batchCreate" -> "BATCH_CREATE_ERROR"

\* what bulkCreate and batchCreate run on each document before the insert
BulkCreateStages ==
  <<"beforeCreate", "validateUniqueFields", "preValidate", "customValidators",
    "postValidate", "generateUniqueSlug">>

BatchCreateStages ==
  <<"validateUniqueFields", "preValidate", "customValidators", "postValidate",
    "generateUniqueSlug">>

\* one document of the array before the insert: its stages run against the
\* store as it is before the insert
PrepareDocument(stages, document, args, fault) ==
  RunStages("create", stages, [State(args, store, nextId) EXCEPT !.doc = document],
            fault)

\* Promise.all over the documents: the first failure in array order
FirstError(prepared) ==
  LET failed == {i \in DOMAIN prepared : prepared[i].err # NoError} IN
  IF failed = {} THEN NoError
  ELSE prepared[CHOOSE i \in failed : \A j \in failed : i <= j].err

\* createMany(items, ordered = true): insertMany, one document after another
RECURSIVE RepoCreateMany(_, _, _)
RepoCreateMany(s, items, id) ==
  IF items = <<>> THEN [store |-> s, docs |-> <<>>, nextId |-> id]
  ELSE LET w == RepoCreate(s, Head(items), id)
           r == RepoCreateMany(w.store, Tail(items), id + 1)
       IN [store |-> r.store, docs |-> w.doc \o r.docs, nextId |-> r.nextId]

\* what the documents' stages called before the insert.  Promise.all lets
\* the documents' chains overlap and run on after one of them has thrown;
\* they are listed document by document
RECURSIVE StageTraces(_)
StageTraces(prepared) ==
  IF prepared = <<>> THEN <<>>
  ELSE Head(prepared).trace \o StageTraces(Tail(prepared))

\* what a bulkCreate / batchCreate called, in order: the documents' stages,
\* the insert once they have all passed, the afterCreate hook of every
\* inserted document once the insert has returned
BulkTrace(op, args, prepared, inserted) ==
  StageTraces(prepared)
    \o (IF FirstError(prepared) # NoError THEN <<>> ELSE <<"persist">>)
    \o (IF FirstError(prepared) = NoError /\ args.fault # "persist"
             /\ op = "bulkCreate" /\ cfg.hooks
          THEN [i \in 1..inserted |-> "afterCreate"]
          ELSE <<>>)

\* an insert that is issued although a document failed a stage
BulkInsertDespiteFailure(op, args, prepared) ==
  LET thrown == FirstError(prepared)
      k == IF args.fault = "persist" THEN args.member - 1 ELSE Len(prepared)
      w == RepoCreateMany(store, [i \in 1..k |-> prepared[i].doc], nextId)
      err == IF thrown = "DATABASE_ERROR" THEN BulkCode(op)
             ELSE IF thrown # NoError THEN thrown
             ELSE IF args.fault = "persist" THEN BulkCode(op)
             ELSE IF op = "bulkCreate" /\ cfg.hooks /\ args.fault = "afterCreate"
               THEN BulkCode(op)
             ELSE NoError
      trace == BulkTrace(op, args, prepared, Len(w.docs))
  IN /\ store' = w.store
     /\ nextId' = w.nextId
     /\ res' = IF err # NoError
                 THEN Result(op, args, "error", err, <<>>, NoMeta, trace, <<>>, FALSE)
                 ELSE [Result(op, args, "ok", NoError, w.docs, NoMeta, trace, <<>>,
                              FALSE)
                         EXCEPT !.count = IF op = "batchCreate" THEN Num(Len(w.docs))
                                          ELSE NoNum]
     /\ UNCHANGED <<cfg, env, calls, now, cache>>

\* the insert and the envelope of bulkCreate and batchCreate; an ordered
\* insert that fails at a document keeps the documents before it; a plain
\* Error takes the code of the operation's catch block
BulkInsert(op, args, prepared) ==
  LET thrown == FirstError(prepared)
      k == IF args.fault = "persist" THEN args.member - 1 ELSE Len(prepared)
      w == RepoCreateMany(store, [i \in 1..k |-> prepared[i].doc], nextId)
      err == IF thrown = "DATABASE_ERROR" THEN BulkCode(op)
             ELSE IF thrown # NoError THEN thrown
             ELSE IF args.fault = "persist" THEN BulkCode(op)
             ELSE IF op = "bulkCreate" /\ cfg.hooks /\ args.fault = "afterCreate"
               THEN BulkCode(op)
             ELSE NoError
      trace == BulkTrace(op, args, prepared, Len(w.docs))
  IN /\ store' = IF thrown # NoError THEN store ELSE w.store
     /\ nextId' = IF thrown # NoError THEN nextId ELSE w.nextId
     /\ res' = IF err # NoError
                 THEN Result(op, args, "error", err, <<>>, NoMeta, trace, <<>>, FALSE)
                 ELSE [Result(op, args, "ok", NoError, w.docs, NoMeta, trace, <<>>,
                              FALSE)
                         EXCEPT !.count = IF op = "batchCreate" THEN Num(Len(w.docs))
                                          ELSE NoNum]
     /\ UNCHANGED <<cfg, env, calls, now, cache>>

\* bulkCreate(documents, { skipValidation }) and
\* batchCreate(documents, { validateBeforeInsert })
ServiceBulkCreate(op, args) ==
  LET stages == IF ~args.validate THEN <<>>
                ELSE IF op = "bulkCreate" THEN BulkCreateStages
                ELSE BatchCreateStages
  IN BulkInsert(op, args,
                [i \in 1..Len(args.members) |->
                   PrepareDocument(stages, args.members[i], args,
                                   IF args.member = i THEN args.fault ELSE "none")])

\* bulkUpdate(filter, update, { validateEach }) and
\* bulkDelete(filter, softDelete = true)
ServiceBulk(op, args) ==
  LET m == args.members[1]
      invalid == /\ op = "bulkUpdate"
                 /\ args.validate
                 /\ ValidateEachThrows(store, m, args.fault)
      err == IF invalid
               THEN IF args.fault = "customValidators" THEN "VALIDATION_ERROR"
                    ELSE BulkCode(op)
             ELSE IF args.fault = "persist" THEN BulkCode(op)
             ELSE NoError
      w == IF op = "bulkUpdate"
             THEN RepoUpdateMany(store, m.filter, UpdatePatch(m.update))
             ELSE RepoDeleteMany(store, m.filter, args.softOpt # "hard", DateNow)
  IN /\ store' = IF err # NoError THEN store ELSE w.store
     /\ res' = IF err # NoError
                 THEN Result(op, args, "error", err, <<>>, NoMeta, <<>>, <<>>, FALSE)
                 ELSE [Result(op, args, "ok", NoError, <<>>, NoMeta, <<>>, <<>>, FALSE)
                         EXCEPT !.count = Num(w.count)]
     /\ UNCHANGED <<cfg, env, calls, nextId, now, cache>>

-----------------------------------------------------------------------------
(* The calls the environment makes. *)

Ids == 1..env.records
Range(s) == {s[i] : i \in 1..Len(s)}

\* what may fail during a write: its storage call ("persist"), and the
\* hooks and validators the service is configured with
WriteFaults(stages) == {"none"} \cup (Range(stages) \cap env.faults)
ReadFaults == {"none"} \cup ({"storage"} \cap env.faults)

Create ==
  \E name \in env.names, email \in env.emails, fault \in WriteFaults(CreateStages) :
    /\ nextId <= env.records
    /\ Write("create", CreateStages,
             [NoArgs EXCEPT !.input = Input(name, email), !.fault = fault])

Update ==
  \E q \in env.queries, name \in env.names, email \in env.emails,
     includeDeleted \in env.includeDeleted, fault \in WriteFaults(UpdateStages) :
    Write("update", UpdateStages,
          [NoArgs EXCEPT !.query = q, !.input = Input(name, email),
                         !.includeDeleted = includeDeleted, !.fault = fault])

UpdateById ==
  \E id \in Ids, name \in env.names, email \in env.emails,
     fault \in WriteFaults(UpdateByIdStages) :
    Write("updateById", UpdateByIdStages,
          [NoArgs EXCEPT !.id = id, !.input = Input(name, email), !.fault = fault])

Delete ==
  \E q \in env.queries, fault \in WriteFaults(DeleteStages) :
    Write("delete", DeleteStages, [NoArgs EXCEPT !.query = q, !.fault = fault])

DeleteById ==
  \E id \in Ids, fault \in WriteFaults(DeleteStages) :
    Write("deleteById", DeleteStages, [NoArgs EXCEPT !.id = id, !.fault = fault])

Restore ==
  \E q \in env.queries, fault \in WriteFaults(RestoreStages) :
    LET args == [NoArgs EXCEPT !.query = q, !.fault = fault] IN
    IF cfg.softDelete THEN Write("restore", RestoreStages, args)
    ELSE NotSupported("restore", args)

RestoreById ==
  \E id \in Ids, fault \in WriteFaults(RestoreStages) :
    LET args == [NoArgs EXCEPT !.id = id, !.fault = fault] IN
    IF cfg.softDelete THEN Write("restoreById", RestoreStages, args)
    ELSE NotSupported("restoreById", args)

FindAll ==
  \E q \in env.queries, page \in env.pages, limit \in env.limits,
     paginate \in env.paginate, includeDeleted \in env.includeDeleted,
     fault \in ReadFaults :
    ServiceFindAll([NoArgs EXCEPT !.query = q, !.page = page, !.limit = limit,
                                  !.paginate = paginate,
                                  !.includeDeleted = includeDeleted,
                                  !.fault = fault])

FindOne ==
  \E q \in env.queries, includeDeleted \in env.includeDeleted, fault \in ReadFaults :
    ServiceFindOne([NoArgs EXCEPT !.query = q, !.includeDeleted = includeDeleted,
                                  !.fault = fault])

FindById ==
  \E id \in Ids, includeDeleted \in env.includeDeleted, fault \in ReadFaults :
    ServiceFindById([NoArgs EXCEPT !.id = id, !.includeDeleted = includeDeleted,
                                   !.fault = fault])

\* what may fail in a member of a batch, and in which member
BatchFaults(stages, members) ==
  {<<"none", 0>>} \cup ((stages \cap env.faults) \X (1..Len(members)))

BatchUpdate ==
  \E filters \in env.batches, name \in env.names, email \in env.emails,
     validateEach \in env.options :
    LET members == [i \in 1..Len(filters) |-> Member(filters[i], Input(name, email))] IN
    \E f \in BatchFaults(ValidationStages \cup {"persist"}, members) :
      ServiceBatch("batchUpdate",
                   [NoArgs EXCEPT !.members = members, !.validate = validateEach,
                                  !.fault = f[1], !.member = f[2]])

BatchDelete ==
  \E filters \in env.batches, validateBeforeDelete \in env.options,
     softOpt \in {"config", "soft", "hard"} :
    LET members == [i \in 1..Len(filters) |-> Member(filters[i], NoInput)] IN
    \E f \in BatchFaults({"persist"}, members) :
      ServiceBatch("batchDelete",
                   [NoArgs EXCEPT !.members = members,
                                  !.validate = validateBeforeDelete,
                                  !.softOpt = softOpt,
                                  !.fault = f[1], !.member = f[2]])

BatchRestore ==
  \E filters \in env.batches, validateBeforeRestore \in env.options :
    LET members == [i \in 1..Len(filters) |-> Member(filters[i], NoInput)] IN
    \E f \in BatchFaults({"persist"}, members) :
      LET args == [NoArgs EXCEPT !.members = members,
                                 !.validate = validateBeforeRestore,
                                 !.fault = f[1], !.member = f[2]]
      IN IF cfg.softDelete THEN ServiceBatch("batchRestore", args)
         ELSE NotSupported("batchRestore", args)

Clone ==
  \E id \in Ids, name \in env.names, email \in env.emails,
     fault \in WriteFaults(CreateStages) :
    /\ nextId <= env.records
    /\ ServiceClone([NoArgs EXCEPT !.id = id, !.input = Input(name, email),
                                   !.fault = fault])

\* the arrays of documents a caller hands to bulkCreate and batchCreate
Documents ==
  LET inputs == {Input(name, email) : name \in env.names, email \in env.emails}
  IN {<<d>> : d \in inputs} \cup {<<d, e>> : d, e \in inputs}

BulkCreate ==
  \E documents \in Documents, skipValidation \in env.options :
    \E f \in BatchFaults(Range(CreateStages), documents) :
      /\ nextId + Len(documents) - 1 <= env.records
      /\ ServiceBulkCreate("bulkCreate",
                           [NoArgs EXCEPT !.members = documents,
                                          !.validate = ~skipValidation,
                                          !.fault = f[1], !.member = f[2]])

BatchCreate ==
  \E documents \in Documents, validateBeforeInsert \in env.options :
    \E f \in BatchFaults(Range(BatchCreateStages) \cup {"persist"}, documents) :
      /\ nextId + Len(documents) - 1 <= env.records
      /\ ServiceBulkCreate("batchCreate",
                           [NoArgs EXCEPT !.members = documents,
                                          !.validate = validateBeforeInsert,
                                          !.fault = f[1], !.member = f[2]])

BulkUpdate ==
  \E q \in env.queries, name \in env.names, email \in env.emails,
     validateEach \in env.options :
    LET members == <<Member(q, Input(name, email))>> IN
    \E f \in BatchFaults(ValidationStages \cup {"persist"}, members) :
      ServiceBulk("bulkUpdate",
                  [NoArgs EXCEPT !.members = members, !.validate = validateEach,
                                 !.fault = f[1], !.member = f[2]])

BulkDelete ==
  \E q \in env.queries, softOpt \in {"config", "hard"} :
    LET members == <<Member(q, NoInput)>> IN
    \E f \in BatchFaults({"persist"}, members) :
      ServiceBulk("bulkDelete",
                  [NoArgs EXCEPT !.members = members, !.softOpt = softOpt,
                                 !.fault = f[1], !.member = f[2]])

\* update(query, input) and updateById(id, input) of a record that another
\* caller deletes in between
UpdateRaced ==
  \E q \in env.queries, name \in env.names, email \in env.emails,
     race \in {"soft", "hard"} :
    /\ RepoFindOne(store, q, FALSE) # <<>>
    /\ WriteRaced("update", UpdateStages,
                  [NoArgs EXCEPT !.query = q, !.input = Input(name, email),
                                 !.race = race])

UpdateByIdRaced ==
  \E id \in Ids, name \in env.names, email \in env.emails,
     race \in {"soft", "hard"} :
    /\ RepoFindById(store, id, FALSE) # <<>>
    /\ WriteRaced("updateById", UpdateByIdStages,
                  [NoArgs EXCEPT !.id = id, !.input = Input(name, email),
                                 !.race = race])

ExportData ==
  \E q \in env.queries, include \in env.fields, exclude \in env.fields,
     fault \in ReadFaults :
    ServiceExport([NoArgs EXCEPT !.query = q, !.include = include,
                                 !.exclude = exclude, !.fault = fault])

\* the calls in flight that have not settled yet
Unsettled(op) == {i \in 1..Len(calls) : calls[i].op = op /\ calls[i].left # <<>>}

CallCreate ==
  \E name \in env.names, email \in env.emails :
    /\ nextId + Cardinality(Unsettled("create")) <= env.records
    /\ CallWrite("create", CreateStages, [NoArgs EXCEPT !.input = Input(name, email)])

CallDeleteById ==
  \E id \in Ids :
    CallWrite("deleteById", DeleteStages, [NoArgs EXCEPT !.id = id])

CallFindAll ==
  \E q \in env.queries, fault \in ReadFaults :
    CallRead("findAll", [NoArgs EXCEPT !.query = q, !.fault = fault])

CallFindOne ==
  \E q \in env.queries, fault \in ReadFaults :
    CallRead("findOne", [NoArgs EXCEPT !.query = q, !.fault = fault])

\* some suspended call runs its next await
Advance ==
  \E i \in 1..Len(calls) :
    /\ calls[i].left # <<>>
    /\ IF calls[i].op \in {"findAll", "findOne"} THEN AdvanceRead(i) ELSE AdvanceWrite(i)

\* the callers drop the promises of calls that have all settled
Forget ==
  /\ calls # <<>>
  /\ \A i \in 1..Len(calls) : calls[i].left = <<>>
  /\ calls' = <<>>
  /\ UNCHANGED <<cfg, env, store, nextId, now, cache, res>>

-----------------------------------------------------------------------------
(* The repository called directly, every operation with its default         *)
(* arguments (includeDeleted = false, softDelete = true).                   *)

\* a repository call settles: what it returned and what it left in the store
RepoCall(op, args, s, docs, count) ==
  /\ store' = s
  /\ res' = [Result(op, args, "ok", NoError, docs, NoMeta, <<>>, <<>>, TRUE)
               EXCEPT !.count = count]
  /\ UNCHANGED <<cfg, env, calls, nextId, now, cache>>

RepositoryCreate ==
  \E name \in env.names :
    /\ nextId <= env.records
    /\ LET w == RepoCreate(store, Input(name, Absent), nextId) IN
       /\ store' = w.store
       /\ nextId' = nextId + 1
       /\ res' = Result("repo.create", [NoArgs EXCEPT !.input = Input(name, Absent)],
                        "ok", NoError, w.doc, NoMeta, <<>>, <<>>, TRUE)
       /\ UNCHANGED <<cfg, env, calls, now, cache>>

RepositoryFind ==
  \E q \in env.queries, id \in Ids :
    LET byQuery == [NoArgs EXCEPT !.query = q]
        byId == [NoArgs EXCEPT !.id = id]
    IN \/ RepoCall("repo.findAll", byQuery, store,
                   RepoFindAll(store, q, NoOptions, FALSE), NoNum)
       \/ RepoCall("repo.findOne", byQuery, store, RepoFindOne(store, q, FALSE), NoNum)
       \/ RepoCall("repo.findById", byId, store, RepoFindById(store, id, FALSE), NoNum)
       \/ RepoCall("repo.countDocuments", byQuery, store, <<>>,
                   Num(RepoCountDocuments(store, q, FALSE)))
       \/ RepoCall("repo.exists", byQuery, store, <<>>,
                   Num(IF RepoExists(store, q, FALSE) THEN 1 ELSE 0))

RepositoryUpdate ==
  \E q \in env.queries, id \in Ids, name \in env.names :
    LET p == UpdatePatch(Input(name, Absent))
        one == RepoUpdate(store, q, p, FALSE)
        byId == RepoUpdateById(store, id, p)
        many == RepoUpdateMany(store, q, p)
    IN \/ RepoCall("repo.update", [NoArgs EXCEPT !.query = q, !.input = Input(name, Absent)],
                   one.store, one.doc, NoNum)
       \/ RepoCall("repo.updateById", [NoArgs EXCEPT !.id = id, !.input = Input(name, Absent)],
                   byId.store, byId.doc, NoNum)
       \/ RepoCall("repo.updateMany", [NoArgs EXCEPT !.query = q, !.input = Input(name, Absent)],
                   many.store, <<>>, Num(many.count))

RepositoryDelete ==
  \E q \in env.queries, id \in Ids :
    LET one == RepoDelete(store, q, TRUE, DateNow)
        byId == RepoDeleteById(store, id, TRUE, DateNow)
        many == RepoDeleteMany(store, q, TRUE, DateNow)
    IN \/ RepoCall("repo.delete", [NoArgs EXCEPT !.query = q], one.store, one.doc, NoNum)
       \/ RepoCall("repo.deleteById", [NoArgs EXCEPT !.id = id], byId.store, byId.doc, NoNum)
       \/ RepoCall("repo.deleteMany", [NoArgs EXCEPT !.query = q], many.store, <<>>,
                   Num(many.count))

RepositoryRestore ==
  \E q \in env.queries, id \in Ids :
    LET one == RepoRestore(store, q)
        byId == RepoRestoreById(store, id)
        many == RepoRestoreMany(store, q)
    IN \/ RepoCall("repo.restore", [NoArgs EXCEPT !.query = q], one.store, one.doc, NoNum)
       \/ RepoCall("repo.restoreById", [NoArgs EXCEPT !.id = id], byId.store, byId.doc, NoNum)
       \/ RepoCall("repo.restoreMany", [NoArgs EXCEPT !.query = q], many.store, <<>>,
                   Num(many.count))

\* clearCache(): this.cache.clear()
ClearCache ==
  /\ cache' = {}
  /\ res' = Result("clearCache", NoArgs, "ok", NoError, <<>>, NoMeta, <<>>, <<>>, FALSE)
  /\ UNCHANGED <<cfg, env, calls, store, nextId, now>>

\* a second passes
Tick ==
  /\ now < MaxTime
  /\ now' = now + 1
  /\ UNCHANGED <<cfg, env, calls, store, nextId, cache, res>>

-----------------------------------------------------------------------------
(* Specifications.  Each one fixes a configuration of the service and the   *)
(* values its callers draw their arguments from.                            *)

\* mergeConfig: the resolved configuration of one service
Config(softDelete, slug, cacheEnabled, unique, hooks) ==
  [softDelete |-> softDelete, slug |-> slug, cache |-> cacheEnabled,
   ttl |-> CacheTtl, unique |-> unique, hooks |-> hooks,
   defaultLimit |-> DefaultLimit, maxLimit |-> MaxLimit]

Callers(names, emails, queries, includeDeleted, faults) ==
  [names |-> names, emails |-> emails, queries |-> queries,
   includeDeleted |-> includeDeleted, faults |-> faults,
   pages |-> {NoNum}, limits |-> {NoNum}, paginate |-> {TRUE},
   records |-> MaxRecords, batches |-> {}, options |-> {FALSE},
   fields |-> {NoFields}, calls |-> MaxCalls]

\* the state after construction
Constructed ==
  /\ store = <<>>
  /\ nextId = 1
  /\ now = 1
  /\ cache = {}
  /\ res = NoCall
  /\ calls = <<>>

\* Soft delete and restore, by filter and by id, while time passes.
Init ==
  /\ cfg = Config(TRUE, FALSE, FALSE, FALSE, FALSE)
  /\ env = Callers(Names, {Absent}, {ByName(n) : n \in Names}, BOOLEAN, {})
  /\ Constructed

Next ==
  \/ Create
  \/ Delete
  \/ DeleteById
  \/ Restore
  \/ RestoreById
  \/ FindById
  \/ Tick

Spec == Init /\ [][Next]_vars

\* Slugs: a service with slug generation and soft delete; records are
\* created, renamed, soft-deleted and restored.
InitSlug ==
  /\ cfg = Config(TRUE, TRUE, FALSE, FALSE, FALSE)
  /\ env = Callers({"Alpha", "Beta"}, {Absent}, {}, {FALSE}, {})
  /\ Constructed

NextSlug ==
  \/ Create
  \/ UpdateById
  \/ DeleteById
  \/ RestoreById

SpecSlug == InitSlug /\ [][NextSlug]_vars

\* Slugs of successive creations: records are created and soft-deleted only.
NextSlugCreate ==
  \/ Create
  \/ DeleteById

SpecSlugCreate == InitSlug /\ [][NextSlugCreate]_vars

\* The slug loop: records are created, renamed by filter and soft-deleted,
\* so that the loop of create and of update meets taken slugs.
InitSlugLoop ==
  /\ cfg = Config(TRUE, TRUE, FALSE, FALSE, FALSE)
  /\ env = Callers({"Alpha", "Beta"}, {Absent}, {ByName("Alpha")}, {FALSE}, {})
  /\ Constructed

NextSlugLoop ==
  \/ Create
  \/ Update
  \/ DeleteById

SpecSlugLoop == InitSlugLoop /\ [][NextSlugLoop]_vars

\* Unique fields: a service whose schema flags email unique; records are
\* created, updated by filter and by id, and soft-deleted.
InitUnique ==
  /\ cfg = Config(TRUE, FALSE, FALSE, TRUE, FALSE)
  /\ env = [Callers({"Alpha"}, {Absent, "", "e1", "e2"}, {ByName("Alpha")}, {FALSE}, {})
             EXCEPT !.records = MaxRecords - 1]
  /\ Constructed

NextUnique ==
  \/ Create
  \/ Update
  \/ UpdateById
  \/ DeleteById

SpecUnique == InitUnique /\ [][NextUnique]_vars

\* Unique fields and restoring: records with truthy unique values are
\* created, updated by id, soft-deleted and restored.
InitUniqueRestore ==
  /\ cfg = Config(TRUE, FALSE, FALSE, TRUE, FALSE)
  /\ env = [Callers({"Alpha"}, {Absent, "e1", "e2"}, {}, {FALSE}, {})
             EXCEPT !.records = MaxRecords - 1]
  /\ Constructed

NextUniqueRestore ==
  \/ Create
  \/ UpdateById
  \/ DeleteById
  \/ RestoreById

SpecUniqueRestore == InitUniqueRestore /\ [][NextUniqueRestore]_vars

\* Concurrent creates: a service whose schema flags email unique; create
\* calls overlap, each suspended at its awaits.
InitCreateRace ==
  /\ cfg = Config(TRUE, FALSE, FALSE, TRUE, FALSE)
  /\ env = [Callers({"Alpha"}, {"e1", "e2"}, {}, {FALSE}, {})
             EXCEPT !.records = MaxRecords - 1]
  /\ Constructed

NextCreateRace ==
  \/ CallCreate
  \/ Advance
  \/ Forget

SpecCreateRace == InitCreateRace /\ [][NextCreateRace]_vars

\* Slugs of batches: a service with slug generation; arrays of documents are
\* inserted by bulkCreate while create calls overlap.
InitBulkSlug ==
  /\ cfg = Config(TRUE, TRUE, FALSE, FALSE, FALSE)
  /\ env = Callers({"Alpha", "Beta"}, {Absent}, {}, {FALSE}, {})
  /\ Constructed

NextBulkSlug ==
  \/ BulkCreate
  \/ CallCreate
  \/ Advance
  \/ Forget

SpecBulkSlug == InitBulkSlug /\ [][NextBulkSlug]_vars

\* Overlapping reads: a caching service whose findAll and findOne calls
\* overlap while records are created and time passes.
InitReadRace ==
  /\ cfg = Config(TRUE, FALSE, TRUE, FALSE, FALSE)
  /\ env = [Callers({"Alpha"}, {Absent}, {ByName("Alpha")}, {FALSE}, {})
             EXCEPT !.records = MaxRecords - 2]
  /\ Constructed

NextReadRace ==
  \/ Create
  \/ CallFindAll
  \/ CallFindOne
  \/ Advance
  \/ Forget
  \/ Tick

SpecReadRace == InitReadRace /\ [][NextReadRace]_vars

\* Failing reads: a caching service whose reads may find nothing or meet a
\* storage error, while records come and go and entries expire.
InitReadFail ==
  /\ cfg = Config(TRUE, FALSE, TRUE, FALSE, FALSE)
  /\ env = [Callers({"Alpha"}, {Absent}, {ByName("Alpha")}, {FALSE}, {"storage"})
             EXCEPT !.records = MaxRecords - 2]
  /\ Constructed

NextReadFail ==
  \/ Create
  \/ DeleteById
  \/ FindAll
  \/ FindOne
  \/ Tick

SpecReadFail == InitReadFail /\ [][NextReadFail]_vars

\* Concurrent deletes: deleteById calls on the same record overlap, under
\* both settings of config.softDelete, with the delete hooks configured.
InitDeleteRace ==
  /\ cfg \in {Config(softDelete, FALSE, FALSE, FALSE, TRUE) : softDelete \in BOOLEAN}
  /\ env = [Callers({"Alpha"}, {Absent}, {}, {FALSE}, {})
             EXCEPT !.records = MaxRecords - 1]
  /\ Constructed

NextDeleteRace ==
  \/ Create
  \/ CallDeleteById
  \/ Advance
  \/ Forget
  \/ Tick

SpecDeleteRace == InitDeleteRace /\ [][NextDeleteRace]_vars

\* bulkCreate: a service with every hook and validator configured, unique
\* fields and slugs; arrays of one or two documents are inserted, with and
\* without skipValidation; a hook, a validator or the insert may throw.
InitBulk ==
  /\ cfg = Config(TRUE, TRUE, FALSE, TRUE, TRUE)
  /\ env = [Callers({"Alpha"}, {Absent, "e1"}, {}, {FALSE},
                    {"customValidators", "persist", "afterCreate"})
             EXCEPT !.options = BOOLEAN, !.records = MaxRecords - 1]
  /\ Constructed

NextBulk ==
  \/ Create
  \/ BulkCreate
  \/ DeleteById

SpecBulk == InitBulk /\ [][NextBulk]_vars

\* Hooks and failures: a service with every hook and validator configured,
\* unique fields and slugs; any hook, validator or storage call may throw.
InitHooks ==
  /\ cfg = Config(TRUE, TRUE, FALSE, TRUE, TRUE)
  /\ env = [Callers({Absent, "Alpha"}, {Absent, "e1"}, {ByName("Alpha")}, {FALSE},
                    HookStages \cup {"persist", "storage"})
             EXCEPT !.records = MaxRecords - 1]
  /\ Constructed

NextHooks ==
  \/ Create
  \/ DeleteById
  \/ FindAll
  \/ FindOne
  \/ FindById

SpecHooks == InitHooks /\ [][NextHooks]_vars

\* Pagination: findAll with every kind of page and limit a caller may send
\* (omitted, zero, negative, beyond maxLimit) over a collection that grows
\* and shrinks.
InitPage ==
  /\ cfg = Config(TRUE, FALSE, FALSE, FALSE, FALSE)
  /\ env = [Callers({"Alpha"}, {Absent}, {ByName("Alpha")}, {FALSE}, {})
             EXCEPT !.pages = {NoNum} \cup {Num(n) : n \in 0..(MaxRecords + 1)},
                    !.limits = {NoNum} \cup {Num(n) : n \in -1..2} \cup {Num(MaxLimit + 1)},
                    !.paginate = BOOLEAN]
  /\ Constructed

NextPage ==
  \/ Create
  \/ DeleteById
  \/ FindAll

SpecPage == InitPage /\ [][NextPage]_vars

\* Renaming: a service with slug generation whose records are created and
\* then updated, by filter and by id, with and without the slug source field.
InitRename ==
  /\ cfg = Config(TRUE, TRUE, FALSE, FALSE, FALSE)
  /\ env = [Callers({Absent, "Alpha", "Beta"}, {Absent, "e1"}, {ByName("Alpha")},
                    {FALSE}, {})
             EXCEPT !.records = MaxRecords - 1]
  /\ Constructed

NextRename ==
  \/ Create
  \/ Update
  \/ UpdateById
  \/ FindById

SpecRename == InitRename /\ [][NextRename]_vars

\* Deleting and restoring under both settings of config.softDelete, with
\* the delete hooks configured; a hook or the storage call may throw.
InitDelete ==
  /\ cfg \in {Config(softDelete, FALSE, FALSE, FALSE, TRUE) : softDelete \in BOOLEAN}
  /\ env = [Callers({"Alpha"}, {Absent}, {ByName("Alpha")}, {FALSE},
                    {"beforeDelete", "afterDelete", "persist"})
             EXCEPT !.records = MaxRecords - 1,
                    !.batches = {<<ByName("Alpha")>>}]
  /\ Constructed

NextDelete ==
  \/ Create
  \/ Delete
  \/ DeleteById
  \/ Restore
  \/ RestoreById
  \/ BatchRestore

SpecDelete == InitDelete /\ [][NextDelete]_vars

\* The repository on its own: every operation with its default arguments,
\* over live and soft-deleted records, while time passes.
InitRepo ==
  /\ cfg = Config(TRUE, FALSE, FALSE, FALSE, FALSE)
  /\ env = [Callers({"Alpha", "Beta"}, {Absent}, {ByName("Alpha")}, {FALSE}, {})
             EXCEPT !.records = MaxRecords - 1]
  /\ Constructed

NextRepo ==
  \/ RepositoryCreate
  \/ RepositoryFind
  \/ RepositoryUpdate
  \/ RepositoryDelete
  \/ RepositoryRestore
  \/ Tick

SpecRepo == InitRepo /\ [][NextRepo]_vars

\* Batches: batchUpdate, batchDelete and batchRestore over one or two
\* filters, with validation hooks configured; the validation or the storage
\* call of one member may throw.
InitBatch ==
  /\ cfg = Config(TRUE, FALSE, FALSE, FALSE, TRUE)
  /\ env = [Callers({"Alpha", "Beta"}, {Absent}, {}, {FALSE},
                    {"persist", "preValidate"})
             EXCEPT !.batches = {<<ByName("Alpha")>>, <<ByName("Alpha"), ByName("Beta")>>},
                    !.options = BOOLEAN,
                    !.records = MaxRecords - 1]
  /\ Constructed

NextBatch ==
  \/ Create
  \/ BatchUpdate
  \/ BatchDelete
  \/ BatchRestore

SpecBatch == InitBatch /\ [][NextBatch]_vars

\* The cache: a service with caching enabled, reads with and without
\* includeDeleted, while records are created, deleted and restored and the
\* clock advances past the TTL.
InitCache ==
  /\ cfg = Config(TRUE, FALSE, TRUE, FALSE, FALSE)
  /\ env = [Callers({"Alpha"}, {Absent}, {ByName("Alpha")}, BOOLEAN, {})
             EXCEPT !.records = MaxRecords - 2]
  /\ Constructed

NextCache ==
  \/ Create
  \/ DeleteById
  \/ RestoreById
  \/ FindAll
  \/ FindOne
  \/ FindById
  \/ ClearCache
  \/ Tick

SpecCache == InitCache /\ [][NextCache]_vars

\* Exports: a service whose default page is smaller than the collection,
\* exporting with and without include and exclude lists.
InitExport ==
  /\ cfg = [Config(TRUE, FALSE, FALSE, FALSE, FALSE)
             EXCEPT !.defaultLimit = MaxRecords - 1]
  /\ env = [Callers({"Alpha", "Beta"}, {Absent}, {EmptyQuery, ByName("Alpha")},
                    {FALSE}, {"storage"})
             EXCEPT !.fields = {NoFields, Fields(<<>>), Fields(<<"name">>),
                                Fields(<<"email", "other">>)}]
  /\ Constructed

NextExport ==
  \/ Create
  \/ DeleteById
  \/ ExportData

SpecExport == InitExport /\ [][NextExport]_vars

\* Clones: a service with slug generation and a unique-flagged field, whose
\* records are cloned with and without overrides.
InitClone ==
  /\ cfg = Config(TRUE, TRUE, FALSE, TRUE, FALSE)
  /\ env = Callers({Absent, "Alpha", "Beta"}, {Absent, "e1", "e2"}, {}, {FALSE}, {})
  /\ Constructed

NextClone ==
  \/ Create
  \/ DeleteById
  \/ Clone

SpecClone == InitClone /\ [][NextClone]_vars

\* Races: updates whose record another caller deletes between their load
\* and their persist step, with the update hooks configured.
InitRace ==
  /\ cfg = Config(TRUE, FALSE, FALSE, FALSE, TRUE)
  /\ env = [Callers({"Alpha", "Beta"}, {Absent, "e1"}, {ByName("Alpha")}, {FALSE}, {})
             EXCEPT !.records = MaxRecords - 1]
  /\ Constructed

NextRace ==
  \/ Create
  \/ Update
  \/ UpdateRaced
  \/ UpdateByIdRaced

SpecRace == InitRace /\ [][NextRace]_vars

\* Page sizes: a service whose pagination.maxLimit is smaller than the
\* collection, read with omitted, zero, negative and oversized pages and limits.
InitLimit ==
  /\ cfg = [Config(TRUE, FALSE, FALSE, FALSE, FALSE)
             EXCEPT !.maxLimit = MaxRecords - 1, !.defaultLimit = 1]
  /\ env = [Callers({"Alpha"}, {Absent}, {EmptyQuery}, {FALSE}, {})
             EXCEPT !.pages = {NoNum} \cup {Num(n) : n \in -1..2},
                    !.limits = {NoNum} \cup {Num(n) : n \in (-MaxRecords)..MaxRecords}]
  /\ Constructed

NextLimit ==
  \/ Create
  \/ DeleteById
  \/ FindAll

SpecLimit == InitLimit /\ [][NextLimit]_vars

\* Writes against a warm cache: every write operation of the service, the
\* cached reads and clearCache, within one time to live.
InitWrites ==
  /\ cfg = Config(TRUE, FALSE, TRUE, FALSE, FALSE)
  /\ env = [Callers({"Alpha"}, {Absent}, {ByName("Alpha")}, {FALSE}, {})
             EXCEPT !.batches = {<<ByName("Alpha")>>},
                    !.records = MaxRecords - 1]
  /\ Constructed

NextWrites ==
  \/ Create
  \/ Update
  \/ UpdateById
  \/ Delete
  \/ DeleteById
  \/ Restore
  \/ RestoreById
  \/ Clone
  \/ BulkCreate
  \/ BulkUpdate
  \/ BulkDelete
  \/ BatchCreate
  \/ BatchUpdate
  \/ BatchDelete
  \/ BatchRestore
  \/ FindAll
  \/ FindOne
  \/ ClearCache

SpecWrites == InitWrites /\ [][NextWrites]_vars

\* The cache's time to live: findAll with one set of arguments, answered
\* from the cache or from storage (which may fail), while the collection
\* changes and the clock advances past the TTL.
InitTtl ==
  /\ cfg = Config(TRUE, FALSE, TRUE, FALSE, FALSE)
  /\ env = [Callers({"Alpha"}, {Absent}, {ByName("Alpha")}, {FALSE}, {"storage"})
             EXCEPT !.records = MaxRecords - 2]
  /\ Constructed

NextTtl ==
  \/ Create
  \/ DeleteById
  \/ FindAll
  \/ ClearCache
  \/ Tick

SpecTtl == InitTtl /\ [][NextTtl]_vars

-----------------------------------------------------------------------------
(* Properties. *)

\* what findById(id, populate, includeDeleted) answers in the current state
FindByIdNow(id, includeDeleted) ==
  FindByIdGetter(store, [NoArgs EXCEPT !.id = id, !.includeDeleted = includeDeleted])

\* C2: with soft delete enabled, a successful delete / deleteById of the live
\* record the call loaded keeps it in the collection: findById with
\* includeDeleted = true finds it with deletedAt set and its other fields as
\* they were; and a successful restore / restoreById clears deletedAt, so
\* that a default findById finds the record with its other fields unchanged.
C2_SoftDeleteThenRestore ==
  /\ (cfg.softDelete /\ res.op \in {"delete", "deleteById"} /\ res.status = "ok") =>
       LET target == res.loaded[1]
           found == FindByIdNow(target.id, TRUE)
       IN /\ ~found.threw
          /\ found.docs[1].deletedAt # NullDate
          /\ found.docs[1] = [target EXCEPT !.deletedAt = found.docs[1].deletedAt]
  /\ (cfg.softDelete /\ res.op \in {"restore", "restoreById"} /\ res.status = "ok") =>
       LET found == FindByIdNow(res.docs[1].id, FALSE)
       IN /\ ~found.threw
          /\ found.docs[1].deletedAt = NullDate
          /\ found.docs[1] = [res.loaded[1] EXCEPT !.deletedAt = NullDate]

Reads == {"findAll", "findOne", "findById"}

\* the live / soft-deleted documents of the collection that match q
Matching(q) == EngineMatches(store, q)

\* C1: a findAll, findOne or findById with the default includeDeleted = false
\* never returns a record whose deletedAt is non-null, with caching enabled or
\* not; with includeDeleted = true, findById returns the soft-deleted record
\* of that id, findOne a soft-deleted record when the matches are all
\* soft-deleted, findAll every soft-deleted match.
C1_DefaultReadsHideDeleted ==
  /\ (res.op \in Reads /\ res.status = "ok" /\ ~res.args.includeDeleted) =>
       \A i \in 1..Len(res.docs) : res.docs[i].deletedAt = NullDate
  /\ (res.op = "findById" /\ res.args.includeDeleted /\ res.args.fault = "none") =>
       \A r \in Range(store) :
         (r.id = res.args.id /\ r.deletedAt # NullDate) =>
           (res.status = "ok" /\ res.docs = <<r>>)
  /\ (res.op = "findOne" /\ res.args.includeDeleted /\ res.args.fault = "none"
      /\ Matching(res.args.query) # <<>>
      /\ Matching(NotDeleted(res.args.query)) = <<>>) =>
       (res.status = "ok" /\ res.docs[1].deletedAt # NullDate)
  /\ (res.op = "findAll" /\ res.args.includeDeleted /\ res.args.fault = "none"
      /\ res.status = "ok" /\ ~res.args.paginate) =>
       Range(Matching(OnlyDeleted(res.args.query))) \subseteq Range(res.docs)

\* the step is a findAll call
FindAllCalled == res'.op = "findAll" /\ now' = now /\ (res' # res \/ cache' # cache)

\* the cache entry of a key, as a set of at most one entry
EntryOf(c, key) == {e \in c : e.key = key}

\* C8: with caching enabled and ttl = T, a findAll whose arguments have a
\* cache entry less than T seconds old does not invoke the persistence layer
\* and leaves the entry as it is; a findAll whose entry is T seconds old or
\* older (or missing) invokes the persistence layer and, when it succeeds,
\* stores its result under the key with the current time.
C8_FindAllCachedWithinTtl ==
  [][(cfg.cache /\ FindAllCalled) =>
       LET key == FindAllKey(res'.args)
           young == {e \in EntryOf(cache, key) :
                       DateNow - e.timestamp < cfg.ttl * MsPerSecond}
       IN /\ young # {} =>
               /\ ~res'.hitDb
               /\ cache' = cache
               /\ \E e \in young : res'.docs = e.data.docs /\ res'.meta = e.data.meta
          /\ young = {} =>
               /\ res'.hitDb
               /\ res'.status = "ok" =>
                    EntryOf(cache', key) =
                      {[key |-> key, data |-> [docs |-> res'.docs, meta |-> res'.meta],
                        timestamp |-> DateNow]}
    ]_vars

\* a findAll answered, without a persistence call, from an entry written
\* earlier and not yet T seconds old
C8_Witness ==
  /\ cfg.cache
  /\ res.op = "findAll"
  /\ res.status = "ok"
  /\ ~res.hitDb
  /\ \E e \in EntryOf(cache, FindAllKey(res.args)) :
       /\ e.timestamp < res.at
       /\ res.at - e.timestamp < cfg.ttl * MsPerSecond
       /\ res.docs = e.data.docs

\* C3: with slug enabled, after any sequence of completed create, update,
\* soft delete and restore operations no two records with deletedAt = null
\* hold the same slug.
C3_LiveSlugsDistinct ==
  cfg.slug =>
    \A i, j \in 1..Len(store) :
      (/\ i # j
       /\ store[i].deletedAt = NullDate
       /\ store[j].deletedAt = NullDate
       /\ store[i].slug # Absent) => store[i].slug # store[j].slug

\* the records of the collection created with source value v
SameSource(v) == {i \in 1..Len(store) : store[i].name = v}

LiveHolders(s, v) == {i \in 1..Len(s) : s[i].deletedAt = NullDate /\ s[i].email = v}

\* C5: a create whose input sets the unique field to a value that a live
\* record already holds returns the error envelope with code
\* UNIQUE_FIELD_ERROR, and the call persists no record.
C5_DuplicateCreateRejected ==
  [][(cfg.unique /\ res'.op = "create" /\ res' # res
      /\ res'.args.input.email # Absent
      /\ LiveHolders(store, res'.args.input.email) # {}) =>
       /\ res'.status = "error"
       /\ res'.code = "UNIQUE_FIELD_ERROR"
       /\ store' = store
    ]_vars

\* C6: an update or updateById of record r whose input leaves the unique
\* field out or re-sends r's current value, while no other live record holds
\* that value, does not fail with UNIQUE_FIELD_ERROR.
C6_NoSelfCollision ==
  [][(cfg.unique /\ res'.op \in {"update", "updateById"} /\ res' # res
      /\ res'.loaded # <<>>) =>
       LET r == res'.loaded[1]
           sent == res'.args.input.email
       IN (/\ sent \in {Absent, r.email}
           /\ LiveHolders(store, r.email) \subseteq {IndexOfId(store, r.id)}) =>
            res'.code # "UNIQUE_FIELD_ERROR"
    ]_vars

\* an update that re-sent the record's own unique value went through, next
\* to another live record with a different value
C6_Witness ==
  /\ cfg.unique
  /\ res.op \in {"update", "updateById"}
  /\ res.status = "ok"
  /\ res.loaded # <<>>
  /\ res.loaded[1].email = "e1"
  /\ res.args.input.email = "e1"
  /\ "validateUniqueFields" \in Range(res.trace)
  /\ LiveHolders(store, "e1") = {IndexOfId(store, res.loaded[1].id)}
  /\ LiveHolders(store, "e2") # {}

\* C7: every public operation ends by returning the response envelope; a
\* failure (record not found, failing hook or validator, storage error),
\* also one raised inside the getter of findAll and findOne, gives the error
\* branch, and the call never throws or rejects.
C7_AlwaysAnEnvelope ==
  /\ res.status \in {"ok", "error"}
  /\ res.status = "error" => res.code # NoError

IsPrefix(s, t) == Len(s) <= Len(t) /\ \A i \in 1..Len(s) : s[i] = t[i]

\* C10: create runs beforeCreate, unique-field validation, preValidate, the
\* per-field validators, postValidate, slug assignment, persist, afterCreate
\* in this order; the stage that fails is the last one executed, a call that
\* did not reach persist leaves the collection as it was, and a call that
\* did not run every stage returns the error envelope.
C10_CreateStageOrder ==
  [][(res'.op = "create" /\ res' # res) =>
       LET trace == res'.trace
           fault == res'.args.fault
       IN /\ IsPrefix(trace, CreateStages)
          /\ trace # <<>>
          /\ res'.status \in {"ok", "error"}
          /\ res'.status = "ok" => trace = CreateStages
          /\ Len(trace) < Len(CreateStages) => res'.status = "error"
          /\ (fault \in Range(trace) /\ fault \in HookStages \ {"customValidators"}) =>
               (res'.status = "error" /\ trace[Len(trace)] = fault)
          /\ res'.code \in {"UNIQUE_FIELD_ERROR", "VALIDATION_ERROR"} =>
               trace[Len(trace)] = (IF res'.code = "UNIQUE_FIELD_ERROR"
                                      THEN "validateUniqueFields"
                                      ELSE "customValidators")
          /\ "persist" \notin Range(trace) => (store' = store /\ nextId' = nextId)
          /\ (res'.status = "error" /\ trace[Len(trace)] = "persist") => store' = store
    ]_vars

\* a create whose postValidate threw after the earlier stages had run:
\* nothing after it ran and nothing was stored
C10_Witness ==
  /\ cfg.hooks
  /\ res.op = "create"
  /\ res.status = "error"
  /\ res.args.fault = "postValidate"
  /\ res.trace = <<"beforeCreate", "validateUniqueFields", "preValidate",
                   "customValidators", "postValidate">>
  /\ store = <<>>

\* C9: for a paginated findAll with N matching records, effective limit L
\* and effective page p: totalPages = ceil(N / L) and
\* remainingItems = max(0, N - p * L); on page ceil(N / L) and on every later
\* page remainingItems = 0, a later page holds no documents, and
\* remainingItems is never negative.
C9_PaginationMeta ==
  (res.op = "findAll" /\ res.status = "ok" /\ res.args.paginate /\ res.hitDb) =>
    LET N == Len(Matching(IF res.args.includeDeleted THEN res.args.query
                          ELSE NotDeleted(res.args.query)))
        L == res.meta.limit
        p == res.meta.page
        totalPages == res.meta.totalPages
    IN /\ res.meta.remainingItems >= 0
       /\ res.meta.remainingItems = Max(0, N - p * L)
       /\ L > 0 => /\ totalPages.kind = "number"
                   /\ totalPages.n * L >= N
                   /\ (totalPages.n - 1) * L < N
       /\ (totalPages.kind = "number" /\ p >= totalPages.n) =>
            res.meta.remainingItems = 0
       /\ (totalPages.kind = "number" /\ p > totalPages.n) => res.docs = <<>>

\* the slugs the default generator and resolver derive from source value v
SlugsOf(v) ==
  {Slugify(v)} \cup {UniqueResolver(Slugify(v), k) : k \in 1..MaxRecords}

\* the stored record of identity id, as a set of at most one record
Stored(id) == {r \in Range(store) : r.id = id}

\* C11: with slug enabled, after a successful update or updateById whose
\* input changes the slug source field, the stored record's slug is derived
\* from the new source value and no other live record holds it.
C11_UpdateReassignsSlug ==
  (/\ cfg.slug
   /\ res.op \in {"update", "updateById"}
   /\ res.status = "ok"
   /\ res.args.input.name \notin {Absent, res.loaded[1].name}) =>
    \A r \in Stored(res.docs[1].id) :
      /\ r.slug \in SlugsOf(res.args.input.name)
      /\ \A o \in Range(store) :
           (o.id # r.id /\ o.deletedAt = NullDate) => o.slug # r.slug

\* C12: with slug enabled, a create or an update (by filter or by id) of an
\* existing record whose input has no slug source field does not fail for
\* that reason: it succeeds, and the update leaves the stored slug as it was.
C12_MissingSourceSkipsSlug ==
  (/\ cfg.slug
   /\ res.op \in {"create", "update", "updateById"}
   /\ res.args.input.name = Absent
   /\ res.args.fault = "none"
   /\ res.op = "create" \/ res.loaded # <<>>) =>
    /\ res.status = "ok"
    /\ res.op # "create" =>
         \A r \in Stored(res.loaded[1].id) : r.slug = res.loaded[1].slug

\* the live records the target of a delete or deleteById call matches
LiveTargets(args, op) ==
  IF op = "delete" THEN Matching(NotDeleted(args.query))
  ELSE Matching(NotDeleted(ById(args.id)))

\* C13: delete and deleteById run load, beforeDelete, persist, afterDelete
\* in this order; when no live record matches, the result is the not-found
\* error envelope and neither a hook nor a write happens; the persist step
\* keeps the record and sets deletedAt when config.softDelete is true, and
\* removes the record physically when it is false.
C13_DeleteStages ==
  [][(res'.op \in {"delete", "deleteById"} /\ res' # res) =>
       LET trace == res'.trace IN
       /\ IsPrefix(trace, DeleteStages)
       /\ trace # <<>>
       /\ LiveTargets(res'.args, res'.op) = <<>> =>
            /\ res'.status = "error"
            /\ res'.code = "NOT_FOUND_ERROR"
            /\ trace = <<"load">>
            /\ store' = store
       /\ "persist" \notin Range(trace) => store' = store
       /\ res'.status = "ok" =>
            /\ trace = DeleteStages
            /\ IF cfg.softDelete
                 THEN /\ Len(store') = Len(store)
                      /\ res'.docs[1] \in Range(store')
                      /\ res'.docs[1].deletedAt # NullDate
                 ELSE /\ Len(store') = Len(store) - 1
                      /\ res'.docs[1] \in Range(store)
                      /\ \A r \in Range(store') : r.id # res'.docs[1].id
       /\ (res'.args.fault \in Range(trace)) =>
            (res'.status = "error" /\ trace[Len(trace)] = res'.args.fault)
    ]_vars

\* a delete that went through all four stages and removed the record
\* physically, soft delete being off
C13_Witness ==
  /\ ~cfg.softDelete
  /\ res.op \in {"delete", "deleteById"}
  /\ res.status = "ok"
  /\ res.trace = DeleteStages
  /\ res.docs # <<>>
  /\ res.docs[1] \notin Range(store)

\* the soft-deleted records the target of a restore or restoreById matches
DeletedTargets(args, op) ==
  IF op = "restore" THEN Matching(OnlyDeleted(args.query))
  ELSE Matching(OnlyDeleted(ById(args.id)))

\* C14: with config.softDelete false, restore, restoreById and batchRestore
\* return the error envelope OPERATION_NOT_SUPPORTED and leave the store as
\* it is; with config.softDelete true, a restore or restoreById that matches
\* no soft-deleted record returns the not-found error envelope and changes
\* nothing.
C14_RestoreRefusals ==
  [][(res'.op \in {"restore", "restoreById", "batchRestore"} /\ res' # res) =>
       /\ ~cfg.softDelete =>
            /\ res'.status = "error"
            /\ res'.code = "OPERATION_NOT_SUPPORTED"
            /\ store' = store
       /\ (/\ cfg.softDelete
           /\ res'.op \in {"restore", "restoreById"}
           /\ res'.args.fault = "none"
           /\ DeletedTargets(res'.args, res'.op) = <<>>) =>
            /\ res'.status = "error"
            /\ res'.code = "NOT_FOUND_ERROR"
            /\ store' = store
    ]_vars

RepoReads == {"repo.findAll", "repo.findOne", "repo.findById"}
RepoDefaultOps ==
  RepoReads \cup {"repo.countDocuments", "repo.exists", "repo.update",
                  "repo.updateById", "repo.updateMany", "repo.delete",
                  "repo.deleteById", "repo.deleteMany"}

\* C15: a repository read, update or delete called with its default
\* arguments does not return a record whose deletedAt is non-null, counts
\* and tests live records only, and leaves every soft-deleted record in the
\* store exactly as it was (not modified, not re-stamped, not removed).
C15_DefaultsSpareDeleted ==
  [][(res'.op \in RepoDefaultOps /\ res' # res) =>
       /\ \A r \in Range(store) : r.deletedAt # NullDate => r \in Range(store')
       /\ \A r \in Range(res'.docs) :
            \A o \in Range(store) : o.id = r.id => o.deletedAt = NullDate
       /\ res'.op = "repo.countDocuments" =>
            res'.count = Num(Len(Matching(NotDeleted(res'.args.query))))
       /\ res'.op = "repo.exists" =>
            (res'.count = Num(1) <=> Matching(NotDeleted(res'.args.query)) # <<>>)
    ]_vars

BatchOps == {"batchUpdate", "batchDelete", "batchRestore"}

\* C16: a batchUpdate, batchDelete or batchRestore in which a member fails
\* (its storage call throws, or, under validateEach, the validation of a
\* matching document throws) returns one error envelope without a count; a
\* count is reported only by the success envelope.
C16_BatchFailsAsAWhole ==
  [][(res'.op \in BatchOps /\ res' # res) =>
       LET args == res'.args IN
       /\ res'.status \in {"ok", "error"}
       /\ res'.status = "error" <=> res'.count = NoNum
       /\ (args.fault = "persist" /\ ~args.validate) =>
            (res'.status = "error" /\ res'.code = BatchCode(res'.op))
       /\ (/\ res'.op = "batchUpdate"
           /\ args.validate
           /\ args.fault = "preValidate"
           /\ args.member = 1
           /\ Matching(NotDeleted(args.members[1].filter)) # <<>>) =>
            (res'.status = "error" /\ res'.code = BatchCode(res'.op))
    ]_vars

\* a two-member batchDelete whose second member failed after the first had
\* soft-deleted its records: an error envelope, no count
C16_Witness ==
  /\ res.op = "batchDelete"
  /\ res.status = "error"
  /\ res.count = NoNum
  /\ Len(res.args.members) = 2
  /\ res.args.member = 2
  /\ \E r \in Range(store) :
       MatchesFilter(r, res.args.members[1].filter) /\ r.deletedAt = res.at

\* the sum, over the members, of the number of live records each filter matches
RECURSIVE LiveMatchCount(_)
LiveMatchCount(members) ==
  IF members = <<>> THEN 0
  ELSE Len(Matching(NotDeleted(Head(members).filter))) + LiveMatchCount(Tail(members))

\* the filters of the members match pairwise disjoint sets of records
DisjointMembers(members) ==
  \A i, j \in 1..Len(members) :
    i # j => Range(Matching(members[i].filter)) \cap Range(Matching(members[j].filter)) = {}

\* C17: a batchDelete over filters that match pairwise disjoint sets of
\* records returns success with deleted equal to the sum of the numbers of
\* records the filters match, and afterwards none of these records is
\* visible under default visibility.
C17_BatchDeleteCount ==
  [][(/\ res'.op = "batchDelete"
      /\ res' # res
      /\ res'.args.fault = "none"
      /\ DisjointMembers(res'.args.members)) =>
       /\ res'.status = "ok"
       /\ res'.count = Num(LiveMatchCount(res'.args.members))
       /\ \A i \in 1..Len(res'.args.members) :
            \A r \in Range(Matching(NotDeleted(res'.args.members[i].filter))) :
              \A o \in Range(store') : o.id = r.id => o.deletedAt # NullDate
    ]_vars

C19_ReadsByKeyCached ==
  [][(/\ cfg.cache
      /\ res.op \in {"findOne", "findById"}
      /\ res.status = "ok"
      /\ res.hitDb
      /\ res'.op = res.op
      /\ res'.args = res.args
      /\ res' # res
      /\ DateNow - res.at < cfg.ttl * MsPerSecond) =>
       (~res'.hitDb /\ res'.docs = res.docs)
    ]_vars

WriteOps ==
  {"create", "update", "updateById", "delete", "deleteById", "restore",
   "restoreById", "clone", "bulkCreate", "bulkUpdate", "bulkDelete",
   "batchCreate", "batchUpdate", "batchDelete", "batchRestore"}

CachedReads == {"findAll", "findOne"}

\* the key a cached read is stored under
KeyOf(r) == IF r.op = "findAll" THEN FindAllKey(r.args) ELSE FindOneKey(r.args)

\* C20: no write operation adds, changes or removes a cache entry; the cache
\* changes only when a read misses (the entry of its key is inserted or
\* overwritten) and when clearCache is called (every entry removed); a read
\* answered from the cache returns the entry's value, whatever was written
\* since it was stored.
C20_WritesLeaveCache ==
  [][/\ (res'.op \in WriteOps /\ res' # res) => cache' = cache
     /\ cache' # cache =>
          \/ res'.op = "clearCache" /\ cache' = {}
          \/ /\ res'.op \in CachedReads
             /\ res'.hitDb
             /\ \E e \in cache' :
                  /\ e = [key |-> KeyOf(res'),
                          data |-> [docs |-> res'.docs, meta |-> res'.meta],
                          timestamp |-> DateNow]
                  /\ cache' \ {e} = {o \in cache : o.key # e.key}
     /\ (res'.op \in CachedReads /\ res' # res /\ ~res'.hitDb) =>
          \E e \in cache :
            /\ e.key = KeyOf(res')
            /\ DateNow - e.timestamp < cfg.ttl * MsPerSecond
            /\ res'.docs = e.data.docs
            /\ res'.status = "ok"
    ]_vars

\* a findAll answered from the cache with a record that a later write has
\* soft-deleted in the store
C20_Witness ==
  /\ res.op = "findAll"
  /\ res.status = "ok"
  /\ ~res.hitDb
  /\ res.docs # <<>>
  /\ \A r \in Range(store) : r.deletedAt # NullDate

\* C21: exportData given both an include and an exclude list returns the
\* error envelope with code EXPORT_ERROR and does not read the persistence
\* layer; given only an include list it succeeds with rows that hold exactly
\* the included fields; given only an exclude list, with rows that hold
\* every schema field but the excluded ones.
C21_ExportFields ==
  res.op = "exportData" =>
    LET include == res.args.include
        exclude == res.args.exclude
    IN /\ (include.given /\ exclude.given) =>
            (res.status = "error" /\ res.code = "EXPORT_ERROR" /\ ~res.hitDb)
       /\ (include.given # exclude.given /\ res.args.fault = "none") =>
            res.status = "ok"
       /\ (res.status = "ok" /\ include.given) =>
            \A i \in 1..Len(res.docs) : DOMAIN res.docs[i] = Range(include.fields)
       /\ (res.status = "ok" /\ exclude.given) =>
            \A i \in 1..Len(res.docs) :
              DOMAIN res.docs[i] = SchemaFields \ Range(exclude.fields)

\* an export with the exclude list { email, other } has returned rows
C21_Witness ==
  /\ res.op = "exportData"
  /\ res.status = "ok"
  /\ res.args.exclude = Fields(<<"email", "other">>)
  /\ res.docs # <<>>
  /\ DOMAIN res.docs[1] = {"id", "name", "slug", "deletedAt"}

\* C22: a successful exportData(query) has one row for every non-deleted
\* record that matches the query.
C22_ExportIsComplete ==
  (res.op = "exportData" /\ res.status = "ok") =>
    Len(res.docs) = Len(Matching(NotDeleted(res.args.query)))

\* the live record of the collection with this id, as a sequence
LiveById(id) == Matching(NotDeleted(ById(id)))

\* C23: clone(id, override) of a live record succeeds with a new record
\* whose id is new, whose deletedAt is not copied, whose other fields are
\* the source's with the override applied, and whose slug no other live
\* record has, also when the source holds a value in a unique-flagged field
\* that the override does not replace.
C23_CloneSucceeds ==
  [][(/\ res'.op = "clone"
      /\ res' # res
      /\ res'.args.fault = "none"
      /\ LiveById(res'.args.id) # <<>>) =>
       LET source == LiveById(res'.args.id)[1]
           override == res'.args.input
       IN /\ res'.status = "ok"
          /\ Len(res'.docs) = 1
          /\ \A o \in Range(store) : o.id # res'.docs[1].id
          /\ res'.docs[1] \in Range(store')
          /\ res'.docs[1].deletedAt = NullDate
          /\ res'.docs[1].name =
               IF override.name # Absent THEN override.name ELSE source.name
          /\ res'.docs[1].email =
               IF override.email # Absent THEN override.email ELSE source.email
          /\ \A o \in Range(store') :
               (o.id # res'.docs[1].id /\ o.deletedAt = NullDate) =>
                 o.slug # res'.docs[1].slug
    ]_vars

\* C24: every call of a Service operation returns an envelope with one
\* branch: success with no error, or failure with an error, no data and no
\* meta; meta is present only on a findAll called with paginate = true.
C24_OneBranchAndMeta ==
  res.op # "none" =>
    /\ res.status \in {"ok", "error"}
    /\ res.status = "ok" => res.code = NoError
    /\ res.status = "error" =>
         (res.code # NoError /\ res.docs = <<>> /\ ~res.meta.present)
    /\ res.meta.present => (res.op = "findAll" /\ res.args.paginate)

\* the fields of a record that an update writes
Written(r) == [id |-> r.id, name |-> r.name, email |-> r.email, slug |-> r.slug]

\* C25: an update or updateById whose loaded record is soft- or hard-deleted
\* by another caller before its persist step returns the error envelope
\* NOT_FOUND_ERROR, has run beforeUpdate and not afterUpdate, and modifies
\* no record: the collection differs from the one it started on by that
\* delete only.
C25_UpdateOfDeletedRecord ==
  [][(/\ res'.op \in {"update", "updateById"}
      /\ res'.args.race # "none"
      /\ res' # res) =>
       /\ res'.status = "error"
       /\ res'.code = "NOT_FOUND_ERROR"
       /\ "beforeUpdate" \in Range(res'.trace)
       /\ "afterUpdate" \notin Range(res'.trace)
       /\ \A o \in Range(store') : \E r \in Range(store) : Written(r) = Written(o)
    ]_vars

\* C26: for every page and limit the caller supplies or omits, a paginated
\* findAll returns an envelope whose meta.page is the effective page
\* max(1, page or defaultPage), at least 1, and whose meta.limit is the
\* effective limit min(maxLimit, limit or defaultLimit), at most maxLimit;
\* the read uses them: it returns at most maxLimit documents.
C26_EffectivePageAndLimit ==
  (res.op = "findAll" /\ res.args.paginate /\ res.args.fault = "none") =>
    LET page == res.args.page
        limit == res.args.limit
    IN /\ res.status = "ok"
       /\ res.meta.present
       /\ res.meta.page = Max(1, IF page = NoNum THEN DefaultPage ELSE page[1])
       /\ res.meta.page >= 1
       /\ res.meta.limit =
            Min(cfg.maxLimit, IF limit = NoNum THEN cfg.defaultLimit ELSE limit[1])
       /\ res.meta.limit <= cfg.maxLimit
       /\ Len(res.docs) <= cfg.maxLimit

\* the sum, over the members, of the number of soft-deleted records each
\* filter matches
RECURSIVE DeletedMatchCount(_)
DeletedMatchCount(members) ==
  IF members = <<>> THEN 0
  ELSE Len(Matching(OnlyDeleted(Head(members).filter)))
         + DeletedMatchCount(Tail(members))

\* C27: a batchRestore over filters that match disjoint sets of records
\* returns success with restored equal to the number of soft-deleted
\* records the filters match and leaves each of them with deletedAt
\* cleared, with validateBeforeRestore set or not.
C27_BatchRestoreAll ==
  [][(/\ res'.op = "batchRestore"
      /\ res' # res
      /\ res'.args.fault = "none"
      /\ DisjointMembers(res'.args.members)) =>
       /\ res'.status = "ok"
       /\ res'.count = Num(DeletedMatchCount(res'.args.members))
       /\ \A i \in 1..Len(res'.args.members) :
            \A r \in Range(Matching(OnlyDeleted(res'.args.members[i].filter))) :
              \E o \in Range(store') : o.id = r.id /\ o.deletedAt = NullDate
    ]_vars

\* C28: a create whose input sets the unique field to a falsy value (the
\* empty string) that a live record already holds fails with
\* UNIQUE_FIELD_ERROR.
C28_FalsyValuesChecked ==
  [][(/\ cfg.unique
      /\ res'.op = "create"
      /\ res' # res
      /\ res'.args.fault = "none"
      /\ res'.args.input.email # Absent
      /\ Falsy(res'.args.input.email)
      /\ LiveHolders(store, res'.args.input.email) # {}) =>
       /\ res'.status = "error"
       /\ res'.code = "UNIQUE_FIELD_ERROR"
    ]_vars

\* the call r ran the slug loop of generateUniqueSlug, no writer in between
SlugLoopRan(r) ==
  /\ cfg.slug
  /\ r.op \in {"create", "update"}
  /\ r.args.race = "none"
  /\ ~Falsy(r.args.input.name)
  /\ \E i \in DOMAIN r.trace : r.trace[i] = "generateUniqueSlug"

\* the id the loop of call r leaves out of its existence queries
ExcludedId(r) == IF r.op = "create" THEN 0 ELSE r.loaded[1].id

\* C29: with the default resolver, the slug loop of a create or update on a
\* store of n records issues at most n + 1 existence queries, and the slug
\* it exits with is held by no live record other than the one being
\* written; a create stores that slug.
C29_SlugLoopBounded ==
  [][(res' # res /\ SlugLoopRan(res')) =>
       LET l == SlugLoop(store, res'.args.input.name, 0, ExcludedId(res')) IN
       /\ l.queries <= Len(store) + 1
       /\ \A i \in 1..Len(store) :
            (store[i].deletedAt = NullDate /\ store[i].slug = l.slug) =>
              store[i].id = ExcludedId(res')
       /\ (res'.op = "create" /\ res'.status = "ok") =>
            /\ res'.docs[1].slug = l.slug
            /\ \A o \in Range(store') :
                 (o.deletedAt = NullDate /\ o.slug = l.slug) => o.id = res'.docs[1].id
    ]_vars

\* an update renamed a record to a source value whose slug and whose first
\* regenerated slug two other live records hold: the loop went round twice
C29_Witness ==
  /\ SlugLoopRan(res)
  /\ res.op = "update"
  /\ res.status = "ok"
  /\ \E i, j \in 1..Len(store) :
       /\ store[i].id # res.loaded[1].id
       /\ store[j].id # res.loaded[1].id
       /\ store[i].deletedAt = NullDate
       /\ store[j].deletedAt = NullDate
       /\ store[i].slug = Slugify(res.args.input.name)
       /\ store[j].slug = UniqueResolver(Slugify(res.args.input.name), 1)

\* C30: after any sequence of completed create, update, soft delete and
\* restore operations no two records with deletedAt = null hold the same
\* value in the unique-flagged field.
C30_LiveUniqueValuesDistinct ==
  cfg.unique =>
    \A i, j \in 1..Len(store) :
      (/\ i # j
       /\ store[i].deletedAt = NullDate
       /\ store[j].deletedAt = NullDate
       /\ store[i].email # Absent) => store[i].email # store[j].email

\* the result of the settled call calls[i]
ResultOf(i) == calls[i].result[1]

\* two calls of op, both settled
SettledPairs(op) ==
  {p \in (1..Len(calls)) \X (1..Len(calls)) :
     /\ p[1] < p[2]
     /\ calls[p[1]].op = op /\ calls[p[2]].op = op
     /\ calls[p[1]].left = <<>> /\ calls[p[2]].left = <<>>}

\* C31: of two create calls whose inputs set the same value for the unique
\* field, however their awaits interleave, at most one returns success and
\* at most one record with that value is persisted.
C31_OneCreateWins ==
  cfg.unique =>
    \A p \in SettledPairs("create") :
      LET v == calls[p[1]].args.input.email IN
      (v # Absent /\ calls[p[2]].args.input.email = v) =>
        /\ ~(ResultOf(p[1]).status = "ok" /\ ResultOf(p[2]).status = "ok")
        /\ Cardinality({k \in 1..Len(store) : store[k].email = v}) <= 1

\* the documents of docs carry pairwise distinct slugs
DistinctSlugs(docs) ==
  \A i, j \in 1..Len(docs) : i # j => docs[i].slug # docs[j].slug

\* C32: with slug enabled, the documents persisted by one bulkCreate call
\* that validates, and the records persisted by create calls running
\* concurrently, receive pairwise distinct slugs.
C32_BatchSlugsDistinct ==
  cfg.slug =>
    /\ (res.op = "bulkCreate" /\ res.status = "ok" /\ res.args.validate) =>
         DistinctSlugs(res.docs)
    /\ \A p \in SettledPairs("create") :
         (ResultOf(p[1]).status = "ok" /\ ResultOf(p[2]).status = "ok") =>
           DistinctSlugs(ResultOf(p[1]).docs \o ResultOf(p[2]).docs)

\* the call calls[i] ran its getter: it started on a missing or expired
\* cache entry
QueriedStorage(i) == \E k \in DOMAIN calls[i].st.trace : calls[i].st.trace[k] = "getter"

\* C33: of two overlapping findAll (or findOne) calls with identical
\* arguments that both start on an empty or expired cache entry and both
\* succeed, however their awaits interleave, the persistence layer is
\* queried for only one, and both return the same documents.
C33_OverlappingReadsShareQuery ==
  cfg.cache =>
    \A p \in SettledPairs("findAll") \cup SettledPairs("findOne") :
      LET a == ResultOf(p[1])
          b == ResultOf(p[2])
      IN (/\ p[1] \in calls[p[2]].overlaps
          /\ a.args = b.args
          /\ a.status = "ok" /\ b.status = "ok") =>
           /\ ~(QueriedStorage(p[1]) /\ QueriedStorage(p[2]))
           /\ a.docs = b.docs

\* the key under which the read r is cached
KeyOfRead(r) == IF r.op = "findAll" THEN FindAllKey(r.args) ELSE FindOneKey(r.args)

\* C34: a findAll or findOne whose computation fails leaves the cache map
\* unchanged, and no fresh entry stands for its key afterwards, so that the
\* next identical read queries the persistence layer again.
C34_FailedReadLeavesCache ==
  [][(/\ res'.op \in {"findAll", "findOne"}
      /\ res' # res
      /\ res'.status # "ok") =>
       /\ cache' = cache
       /\ \A e \in cache' :
            e.key = KeyOfRead(res') =>
              ~(res'.at - e.timestamp < cfg.ttl * MsPerSecond)
    ]_vars

\* a findOne found nothing while the expired entry of an earlier, successful
\* findOne of the same query is still in the map
C34_Witness ==
  /\ cfg.cache
  /\ res.op = "findOne"
  /\ res.status = "rejected"
  /\ res.code = "NOT_FOUND_ERROR"
  /\ res.hitDb
  /\ \E e \in cache : e.key = FindOneKey(res.args) /\ e.data.docs # <<>>

\* C35: whenever create returns an error envelope, the store holds no
\* record written by that call: the collection is as it was before the call.
C35_FailedCreatePersistsNothing ==
  [][(res'.op = "create" /\ res' # res /\ res'.status = "error") => store' = store]_vars

\* C36: a successful delete(query) affects the live record its load step
\* found and no other: afterwards that record is gone or carries deletedAt,
\* so that it is not visible by default, and every other record of the
\* collection, an already soft-deleted one that matches the query included,
\* is as it was.
C36_DeleteAffectsLoadedRecord ==
  [][(/\ res'.op = "delete"
      /\ res' # res
      /\ res'.status = "ok"
      /\ res'.args.fault = "none") =>
       LET r == res'.loaded[1] IN
       /\ \A o \in Range(store') : o.id = r.id => o.deletedAt # NullDate
       /\ \A o \in Range(store) : o.id # r.id => o \in Range(store')
    ]_vars

\* the afterDelete hook ran in the call calls[i]
AfterDeleteRan(i) ==
  \E k \in DOMAIN calls[i].st.trace : calls[i].st.trace[k] = "afterDelete"

\* C37: of two overlapping deleteById calls on the same record, one of
\* which deleted it, however their awaits interleave, exactly one returns
\* success, the other returns the error envelope with NOT_FOUND_ERROR, and
\* the afterDelete hook ran in one of them only.
C37_OneDeleteWins ==
  \A p \in SettledPairs("deleteById") :
    LET a == ResultOf(p[1])
        b == ResultOf(p[2])
    IN (/\ p[1] \in calls[p[2]].overlaps
        /\ a.args.id = b.args.id
        /\ (a.status = "ok" \/ b.status = "ok")) =>
         /\ ~(a.status = "ok" /\ b.status = "ok")
         /\ \A r \in {a, b} :
              r.status # "ok" => r.status = "error" /\ r.code = "NOT_FOUND_ERROR"
         /\ ~(AfterDeleteRan(p[1]) /\ AfterDeleteRan(p[2]))

\* C38: for every limit a caller supplies, a paginated findAll that meets
\* no storage error settles with a positive effective limit, a skip offset
\* (page - 1) * limit that is not negative, at most limit documents, and a
\* totalPages that is a finite number >= 0.
C38_EffectiveLimitPositive ==
  (/\ res.op = "findAll"
   /\ res.args.paginate
   /\ res.args.limit # NoNum
   /\ res.args.fault = "none") =>
    /\ res.status = "ok"
    /\ res.meta.limit >= 1
    /\ (res.meta.page - 1) * res.meta.limit >= 0
    /\ Len(res.docs) <= res.meta.limit
    /\ res.meta.totalPages.kind = "number"
    /\ res.meta.totalPages.n >= 0

\* the positions of stage in trace
Positions(trace, stage) == {k \in DOMAIN trace : trace[k] = stage}

\* C39: in a bulkCreate that validates, the insert is issued at most once
\* and only after every document has gone through all of its stages; the
\* afterCreate hooks run after the insert only; and when a document fails a
\* stage the insert is not issued, the collection is as it was and no
\* afterCreate hook runs.
C39_StagesBeforeInsert ==
  [][(res'.op = "bulkCreate" /\ res' # res /\ res'.args.validate) =>
       LET t == res'.trace
           inserts == Positions(t, "persist")
       IN /\ Cardinality(inserts) <= 1
          /\ \A k \in inserts :
               /\ \A j \in DOMAIN t : t[j] \in Range(BulkCreateStages) => j < k
               /\ Cardinality(Positions(t, "generateUniqueSlug")) = Len(res'.args.members)
          /\ \A j \in Positions(t, "afterCreate") : \E k \in inserts : k < j
          /\ store' # store => inserts # {}
          /\ (res'.status = "error" /\ res'.args.fault \notin {"persist", "afterCreate"}) =>
               /\ inserts = {}
               /\ store' = store
               /\ Positions(t, "afterCreate") = {}
    ]_vars

\* a bulkCreate of two documents failed at a stage of one of them while the
\* other went through all of its stages
C39_Witness ==
  /\ res.op = "bulkCreate"
  /\ res.args.validate
  /\ res.status = "error"
  /\ Len(res.args.members) = 2
  /\ Positions(res.trace, "generateUniqueSlug") # {}
  /\ Positions(res.trace, "persist") = {}

=============================================================================
